---- MODULE Spec2Model ----
(***************************************************************************)
(* Docs2App: the document segmenter (docs2app/analyzers/                   *)
(* document_segmenter.py).  A DocumentSegmenter holds two pattern tables   *)
(* and segment_document(text) walks the text's lines (header path) or its  *)
(* paragraphs (fallback path) to produce DocumentSection records.          *)
(* Around it: FeatureAnalyzer.analyze_document and its AI calls,           *)
(* AIProviderManager.generate, and DocumentProcessor.process_documents,    *)
(* which runs extraction, segmentation, analysis and code generation.      *)
(*                                                                         *)
(* Texts are TLA+ strings, handled character by character; the regular     *)
(* expressions of the source are matched as the re module matches them.    *)
(* A confidence is an exact fraction [num, den] (the source uses floats).  *)
(***************************************************************************)
EXTENDS Integers, Sequences, FiniteSets, TLC

\* ------------------------------------------------------------------------
\* Bounds of the model

\* the longest document, in lines, that is built from LineCatalogue
MaxLines == 3

\* the longest document, in lines, for the repeated-call specification
MaxRepeatLines == 1

\* ------------------------------------------------------------------------
\* Strings as the source handles them

Char(s, k) == SubSeq(s, k, k)

SetMin(S) == CHOOSE x \in S : \A y \in S : x <= y

SetMax(S) == CHOOSE x \in S : \A y \in S : x >= y

\* the characters str.strip(), str.split() and the regex class \s take as space
Whitespace == {" ", "\n", "\t"}

UpperAlphabet == "ABCDEFGHIJKLMNOPQRSTUVWXYZ"

LowerAlphabet == "abcdefghijklmnopqrstuvwxyz"

UpperLetters == {Char(UpperAlphabet, k) : k \in 1..Len(UpperAlphabet)}

LowerLetters == {Char(LowerAlphabet, k) : k \in 1..Len(LowerAlphabet)}

Digits == {"0", "1", "2", "3", "4", "5", "6", "7", "8", "9"}

LowerOf == [c \in UpperLetters |->
              Char(LowerAlphabet, CHOOSE k \in 1..Len(UpperAlphabet) : Char(UpperAlphabet, k) = c)]

RECURSIVE LowerFrom(_, _)
LowerFrom(s, k) ==
    IF k > Len(s) THEN ""
    ELSE IF k = Len(s)
         THEN (IF Char(s, k) \in UpperLetters THEN LowerOf[Char(s, k)] ELSE Char(s, k))
    ELSE LET mid == (k + Len(s)) \div 2
         IN  LowerFrom(SubSeq(s, 1, mid), k) \o LowerFrom(s, mid + 1)

\* str.lower()
Lower(s) == LowerFrom(s, 1)

\* str.strip()
Strip(s) ==
    LET keep == {k \in 1..Len(s) : Char(s, k) \notin Whitespace}
    IN  IF keep = {} THEN "" ELSE SubSeq(s, SetMin(keep), SetMax(keep))

RECURSIVE SplitFrom(_, _, _, _)
SplitFrom(s, sep, start, k) ==
    LET found == {j \in k..(Len(s) - Len(sep) + 1) : SubSeq(s, j, j + Len(sep) - 1) = sep}
    IN  IF found = {} THEN <<SubSeq(s, start, Len(s))>>
        ELSE LET next == SetMin(found)
             IN  <<SubSeq(s, start, next - 1)>>
                 \o SplitFrom(s, sep, next + Len(sep), next + Len(sep))

\* str.split(sep) with an explicit separator
Split(s, sep) == SplitFrom(s, sep, 1, 1)

RECURSIVE Join(_, _)
\* sep.join(parts)
Join(parts, sep) ==
    IF Len(parts) = 0 THEN ""
    ELSE IF Len(parts) = 1 THEN parts[1]
    ELSE parts[1] \o sep \o Join(Tail(parts), sep)

\* a word count that counts the spaces instead of the words
WordCountSpaces(s) == Cardinality({k \in 1..Len(s) : Char(s, k) = " "})

\* len(text.split()): the number of maximal runs of non-space characters
WordCount(s) ==
    Cardinality({k \in 1..Len(s) :
                    /\ Char(s, k) \notin Whitespace
                    /\ (k = 1 \/ Char(s, k - 1) \in Whitespace)})

\* ------------------------------------------------------------------------
\* Exact fractions for the confidences

RECURSIVE Gcd(_, _)
Gcd(a, b) == IF b = 0 THEN a ELSE Gcd(b, a % b)

Frac(n, d) == LET g == Gcd(n, d) IN [num |-> n \div g, den |-> d \div g]

FracLess(a, b) == a.num * b.den < b.num * a.den

FracLeq(a, b) == a.num * b.den <= b.num * a.den

One == Frac(1, 1)

Zero == Frac(0, 1)

\* ------------------------------------------------------------------------
\* The pattern tables built by __init__

\* The categories in the order the section_patterns dict is written (and
\* iterated).
CategoryOrder == <<"ziele", "anforderungen", "features", "technisch",
                   "user_stories", "api", "daten">>

\* Each regex of section_patterns as the literals it can match, in the order
\* the regex engine tries them (x? tries the longer literal first).
\* The source's sixth-category literal with a non-ASCII a-umlaut is written
\* here with "ae"; no text of the model holds either spelling.
SectionPatternTable ==
    [ziele |-> << <<"ziele", "ziel">>, <<"objectives", "objective">>,
                  <<"goals", "goal">>, <<"zweck">>, <<"purpose">>,
                  <<"vision">>, <<"mission">> >>,
     anforderungen |-> << <<"anforderungen", "anforderunge">>,
                          <<"requirements", "requirement">>,
                          <<"spezifikation">>, <<"specification">>,
                          <<"bedingungen">>, <<"conditions">> >>,
     features |-> << <<"features", "feature">>, <<"funktionen", "funktione">>,
                     <<"functions", "function">>, <<"capabilities">>,
                     <<"eigenschaften">>, <<"merkmale">> >>,
     technisch |-> << <<"technisch">>, <<"technical">>, <<"architektur">>,
                      <<"architecture">>, <<"implementation">>,
                      <<"implementierung">>, <<"system">>, <<"infrastruktur">> >>,
     user_stories |-> << <<"user story", "user stories">>, <<"anwendungsfaelle">>,
                         <<"use cases", "use case">>, <<"szenarien">>,
                         <<"scenarios", "scenario">>, <<"workflows", "workflow">> >>,
     api |-> << <<"api">>, <<"schnittstelle">>, <<"interface">>,
                <<"endpoints", "endpoint">>, <<"services", "service">>,
                <<"rest">>, <<"graphql">> >>,
     daten |-> << <<"daten">>, <<"data">>, <<"database">>, <<"datenbank">>,
                  <<"modell">>, <<"model">>, <<"schema">>, <<"entities">> >>]

\* heading_patterns, by the rule each regex states
HeadingPatternTable ==
    <<"markdown", "numbered", "allcaps", "underlined_eq", "underlined_dash">>

\* ------------------------------------------------------------------------
\* The state of one DocumentSegmenter and of the segment_document call on it

VARIABLES
    section_patterns,   \* self.section_patterns: category -> its regexes
    heading_patterns,   \* self.heading_patterns: the header regexes, in order
    pc,                 \* where the current call stands
    text,               \* the argument of the current call
    lines,              \* _segment_by_headers: text.split("\n")
    i,                  \* _segment_by_headers: the index of the line scanned next
    current_section,    \* the section being accumulated (either path), or None
    header_sections,    \* the list _segment_by_headers builds and returns
    paragraphs,         \* _segment_by_patterns: text.split("\n\n")
    sections,           \* the list of DocumentSection being built
    calls,              \* the private methods the current call has entered
    result,             \* what the current call returned, once it has
    remembered,         \* the first call's text and result
    summary,            \* what get_section_summary returned for result, or None
    suspended,          \* the frame of a second call on the same segmenter
    config,             \* ConfigManager.config: the provider settings and analysis options
    providers,          \* AIProviderManager.providers: the names registered
    apc,                \* where the analyze_document call stands
    explicit_features,  \* analyze_document: explicit_features
    implicit_features,  \* analyze_document: implicit_features
    enhanced_features,  \* analyze_document: enhanced_features
    enhanced_implicit,  \* analyze_document: enhanced_implicit
    project_metadata,   \* analyze_document: project_metadata
    ai_calls,           \* the calls of ai_manager.generate, in the order they were made
    in_flight,          \* the calls of ai_manager.generate not yet answered
    analysis,           \* what process_documents got from analyze_document, or None
    gpc,                \* where the AIProviderManager.generate call stands
    provider,           \* generate: the argument provider, or None
    dispatched,         \* the providers whose generate the call at hand has called
    response,           \* what the generate call returned or raised, or None
    generate_calls,     \* the number of generate calls made on the manager
    ppc,                \* where the process_documents call stands
    extraction_results, \* process_documents: extraction_results
    output_format,      \* process_documents: the argument output_format
    results,            \* what process_documents returned or raised, or None
    generations         \* the number of generate_project calls made

\* the state of the AI layer: configuration, providers and one analysis
analyzer == <<config, providers, apc, explicit_features, implicit_features,
              enhanced_features, enhanced_implicit, project_metadata, ai_calls, in_flight,
              analysis>>

\* the state of one direct call of AIProviderManager.generate
manager == <<gpc, provider, dispatched, response, generate_calls>>

\* the state of one DocumentProcessor.process_documents call
processor == <<ppc, extraction_results, output_format, results, generations>>

vars == <<section_patterns, heading_patterns, pc, text, lines, i,
          current_section, header_sections, paragraphs, sections, calls,
          result, remembered, summary, suspended, analyzer, manager, processor>>

None == [none |-> TRUE]

\* ------------------------------------------------------------------------
\* _detect_header

UnderlineChars == {"=", "-", "_"}

\* the letters [A-Z] stands for under the flags of the re.match call
CapsClass(ignorecase) ==
    IF ignorecase THEN UpperLetters \cup LowerLetters ELSE UpperLetters

\* the length of the longest run of characters of class cls in s from k on
RunLength(s, k, cls) ==
    LET stops == {j \in k..Len(s) : Char(s, j) \notin cls}
    IN  IF stops = {} THEN Len(s) - k + 1 ELSE SetMin(stops) - k

\* ^#{1,6}\s+(.+)$ on a line without "\n": <<group 1>>, or <<>> for no match
MatchMarkdown(line) ==
    LET h == RunLength(line, 1, {"#"})
        w == RunLength(line, h + 1, Whitespace)
    IN  IF h < 1 \/ h > 6 \/ w < 1 THEN <<>>
        ELSE IF h + w < Len(line) THEN <<SubSeq(line, h + w + 1, Len(line))>>
        ELSE IF w >= 2 THEN <<Char(line, Len(line))>>
        ELSE <<>>

\* ^(\d+\.?\s+.+)$ on a line without "\n"
MatchNumbered(line) ==
    LET d == RunLength(line, 1, Digits)
        dot == IF d < Len(line) /\ Char(line, d + 1) = "." THEN 1 ELSE 0
        w == RunLength(line, d + dot + 1, Whitespace)
    IN  IF d >= 1 /\ w >= 1 /\ (d + dot + w < Len(line) \/ w >= 2)
        THEN <<line>> ELSE <<>>

\* ^([A-Z][A-Z\s]*)$: the pattern without its minimum of six characters
MatchAllCapsAnyLength(line, ignorecase) ==
    IF /\ Len(line) >= 1
       /\ Char(line, 1) \in CapsClass(ignorecase)
       /\ \A k \in 2..Len(line) : Char(line, k) \in CapsClass(ignorecase) \cup Whitespace
    THEN <<line>> ELSE <<>>

\* ^([A-Z][A-Z\s]{5,})$ on a line without "\n"
MatchAllCaps(line, ignorecase) ==
    IF /\ Len(line) >= 6
       /\ Char(line, 1) \in CapsClass(ignorecase)
       /\ \A k \in 2..Len(line) : Char(line, k) \in CapsClass(ignorecase) \cup Whitespace
    THEN <<line>> ELSE <<>>

\* ^(.+)\n=+$ and ^(.+)\n-+$ (c is "=" or "-"): the line must itself hold a
\* "\n" after its first character, followed by a run of c up to a line end
MatchUnderlined(line, c) ==
    LET ks == {k \in 1..(Len(line) - 2) :
                 /\ \A j \in 1..k : Char(line, j) # "\n"
                 /\ Char(line, k + 1) = "\n"
                 /\ LET r == RunLength(line, k + 2, {c})
                    IN  r >= 1 /\ (k + 1 + r = Len(line) \/ Char(line, k + 2 + r) = "\n")}
    IN  IF ks = {} THEN <<>> ELSE <<SubSeq(line, 1, SetMax(ks))>>

\* re.match(pattern, line, re.MULTILINE | re.IGNORECASE) and match.group(1)
MatchHeading(pattern, line) ==
    CASE pattern = "markdown" -> MatchMarkdown(line)
      [] pattern = "numbered" -> MatchNumbered(line)
      [] pattern = "allcaps" -> MatchAllCaps(line, TRUE)
      [] pattern = "underlined_eq" -> MatchUnderlined(line, "=")
      [] pattern = "underlined_dash" -> MatchUnderlined(line, "-")

\* _detect_header without the look at the next line
DetectHeaderNoUnderline(line, all_lines, index) ==
    LET stripped == Strip(line)
        hits == {k \in 1..Len(heading_patterns) :
                    MatchHeading(heading_patterns[k], stripped) # <<>>}
    IN  IF hits # {}
        THEN <<Strip(MatchHeading(heading_patterns[SetMin(hits)], stripped)[1])>>
        ELSE <<>>

\* _detect_header with the look at the next line before the patterns
DetectHeaderUnderlineFirst(line, all_lines, index) ==
    LET stripped == Strip(line)
        hits == {k \in 1..Len(heading_patterns) :
                    MatchHeading(heading_patterns[k], stripped) # <<>>}
    IN  IF /\ index + 1 < Len(all_lines)
           /\ LET next_line == Strip(all_lines[index + 2])
              IN  /\ Len(next_line) > 0
                  /\ \A k \in 1..Len(next_line) : Char(next_line, k) \in UnderlineChars
        THEN <<stripped>>
        ELSE IF hits # {}
             THEN <<Strip(MatchHeading(heading_patterns[SetMin(hits)], stripped)[1])>>
             ELSE <<>>

\* _detect_header(line, lines, index): <<the header text>>, or <<>> for None.
\* index counts from 0 as in the source; lines[index + 1] is that line here.
DetectHeader(line, all_lines, index) ==
    LET stripped == Strip(line)
        hits == {k \in 1..Len(heading_patterns) :
                    MatchHeading(heading_patterns[k], stripped) # <<>>}
    IN  IF hits # {}
        THEN <<Strip(MatchHeading(heading_patterns[SetMin(hits)], stripped)[1])>>
        ELSE IF /\ index + 1 < Len(all_lines)
                /\ LET next_line == Strip(all_lines[index + 2])
                   IN  /\ Len(next_line) > 0
                       /\ \A k \in 1..Len(next_line) : Char(next_line, k) \in UnderlineChars
             THEN <<stripped>>
             ELSE <<>>

\* "if header_match is not None:"
TruthyNotNone(header_match) == header_match # <<>>

\* "if header_match:" -- None and the empty string are both false
Truthy(header_match) == header_match # <<>> /\ header_match[1] # ""

\* ------------------------------------------------------------------------
\* _classify_text and _classify_section

\* the length of the match of a regex at position k of s, 0 for no match
MatchLenAt(alternatives, s, k) ==
    LET fits == {a \in 1..Len(alternatives) :
                    /\ k + Len(alternatives[a]) - 1 <= Len(s)
                    /\ SubSeq(s, k, k + Len(alternatives[a]) - 1) = alternatives[a]}
    IN  IF fits = {} THEN 0 ELSE Len(alternatives[SetMin(fits)])

RECURSIVE FindAllFrom(_, _, _)
FindAllFrom(alternatives, s, k) ==
    LET found == {j \in k..Len(s) : MatchLenAt(alternatives, s, j) > 0}
    IN  IF found = {} THEN 0
        ELSE LET next == SetMin(found)
             IN  1 + FindAllFrom(alternatives, s, next + MatchLenAt(alternatives, s, next))

\* len(re.findall(pattern, text_lower))
FindAllCount(alternatives, s) == FindAllFrom(alternatives, s, 1)

RECURSIVE SumCounts(_, _)
SumCounts(patterns, s) ==
    IF Len(patterns) = 0 THEN 0
    ELSE FindAllCount(patterns[1], s) + SumCounts(Tail(patterns), s)

\* the inner loop of _classify_text: the raw score of one category
RawScore(section_type, t) == SumCounts(section_patterns[section_type], Lower(t))

\* the normalisation by the word count itself, not by a tenth of it
NormalizedScorePerWord(score, words) ==
    IF score >= words THEN One ELSE Frac(score, words)

\* the normalisation without its cap
NormalizedScoreUncapped(score, words) == Frac(10 * score, words)

\* min(score / (len(text.split()) * 0.1), 1.0)
NormalizedScore(score, words) ==
    IF 10 * score >= words THEN One ELSE Frac(10 * score, words)

Raised == [raised |-> "ZeroDivisionError"]

\* a default of another confidence
GeneralZero == [type |-> "general", confidence |-> Frac(0, 1)]

General == [type |-> "general", confidence |-> Frac(3, 10)]

\* the classification keeping the last of the categories of highest score
ClassifyTextLastHighest(t) ==
    LET raw == [c \in DOMAIN section_patterns |-> RawScore(c, t)]
        words == WordCount(t)
        scored == {k \in 1..Len(CategoryOrder) :
                      CategoryOrder[k] \in DOMAIN raw /\ raw[CategoryOrder[k]] > 0}
        score(k) == NormalizedScore(raw[CategoryOrder[k]], words)
    IN  IF scored = {} THEN General
        ELSE IF words = 0 THEN Raised
        ELSE LET best == SetMax({k \in scored :
                                   \A o \in scored : FracLeq(score(o), score(k))})
             IN  [type |-> CategoryOrder[best], confidence |-> score(best)]

\* _classify_text(text): [type, confidence], or Raised when the division
\* by len(text.split()) * 0.1 divides by zero
ClassifyText(t) ==
    LET raw == [c \in DOMAIN section_patterns |-> RawScore(c, t)]
        words == WordCount(t)
        scored == {k \in 1..Len(CategoryOrder) :
                      CategoryOrder[k] \in DOMAIN raw /\ raw[CategoryOrder[k]] > 0}
        score(k) == NormalizedScore(raw[CategoryOrder[k]], words)
    IN  IF scored = {} THEN General
        ELSE IF words = 0 THEN Raised
        ELSE LET best == SetMin({k \in scored :
                                   \A o \in scored : FracLeq(score(o), score(k))})
             IN  [type |-> CategoryOrder[best], confidence |-> score(best)]

\* 0.7 * title + 0.3 * content
Weighted(title_conf, content_conf) ==
    Frac(7 * title_conf.num * content_conf.den + 3 * content_conf.num * title_conf.den,
         10 * title_conf.den * content_conf.den)

Half == Frac(1, 2)

\* the weights of title and content exchanged
ClassifySectionSwapped(title, content) ==
    LET title_score == ClassifyText(title)
        content_score == ClassifyText(content)
    IN  IF title_score = Raised \/ content_score = Raised THEN Raised
        ELSE IF FracLess(Half, title_score.confidence)
             THEN [type |-> title_score.type,
                   confidence |-> Weighted(content_score.confidence, title_score.confidence)]
             ELSE content_score

\* _classify_section(title, content)
ClassifySection(title, content) ==
    LET title_score == ClassifyText(title)
        content_score == ClassifyText(content)
    IN  IF title_score = Raised \/ content_score = Raised THEN Raised
        ELSE IF FracLess(Half, title_score.confidence)
             THEN [type |-> title_score.type,
                   confidence |-> Weighted(title_score.confidence, content_score.confidence)]
             ELSE content_score

\* ------------------------------------------------------------------------
\* The documents segment_document is called with

\* the lines the bounded documents are built from
LineCatalogue ==
    {"", " ", "# api", "see data 1.", "ok, fine.", "===", "Overview"}

RECURSIVE DocumentsOf(_)
\* every sequence of exactly n catalogue lines
DocumentsOf(n) ==
    IF n = 0 THEN {<<>>}
    ELSE {Append(d, l) : d \in DocumentsOf(n - 1), l \in LineCatalogue}

\* whole documents: the examples of the specification and of the tests
RequirementsDoc == "## Requirements\nthe system shall support login and logout"

ApiDoc == "Some filler text here.\n\nAPI endpoint REST service schema API endpoint REST service schema"

ApiDocPunctuated == "Some filler text here.\n\nAPI endpoint REST service schema. API endpoint REST service schema."

TestDoc == "This is a test document. It has multiple sentences."

LongLineDoc == "a b c d e f g h i j k l m n o p api."

LongTitleDoc == "## a b c d e f g h i j k l m n o p q r s api\nplain."

UnderlinedDoc == "Overview\n========"

ShortLineDoc == "# api\nHi\nok, fine."

MarkdownNumberedDoc == "# 1. goals\n==="

ParagraphsDoc == "ok, fine.\n\nsee data 1.\n\nok, fine.\n\nsee api 2."

\* two categories matched once each in four words: both scores capped at 1.0
CappedTieDoc == "see api and data."

\* two categories matched once each in twelve words: both scores 10/12
UncappedTieDoc == "a b c d e f g h i j api data."

\* the later category of the table matched twice, the earlier one once
LaterWinsDoc == "a b c d e f g h i j k l m n o p q r s t u api data data."

\* a paragraph of one category (1.0), then one of another category scored
\* 10/17, below the 0.6 that starts a section
AppendedDoc == "see data 1.\n\na b c d e f g h i j k l m n o p api."

ExampleDocuments ==
    {RequirementsDoc, ApiDoc, ApiDocPunctuated, TestDoc, LongLineDoc,
     "hello world", "api", "Hi", "INTRODUCTION\nbody text.", "1 goals",
     LongTitleDoc, UnderlinedDoc, ShortLineDoc, "Hi\n---",
     MarkdownNumberedDoc, "# INTRODUCTION", "1 goals\n---",
     ParagraphsDoc, CappedTieDoc, UncappedTieDoc, LaterWinsDoc, AppendedDoc}

CatalogueDocuments(max) ==
    {Join(d, "\n") : d \in UNION {DocumentsOf(n) : n \in 1..max}}

Inputs == CatalogueDocuments(MaxLines) \cup ExampleDocuments

\* ------------------------------------------------------------------------
\* The values json.loads returns, and the texts an AI call answers with

JStr(s) == [type |-> "str", value |-> s]

\* a number, as an exact fraction
JNum(n, d) == [type |-> "number", value |-> Frac(n, d)]

JList(l) == [type |-> "list", value |-> l]

\* a JSON object; d is a record, its fields the keys
JDict(d) == [type |-> "dict", value |-> d]

JNull == [type |-> "null", value |-> None]

\* the empty dict, as the fallbacks "return {}" give it
EmptyDict == [type |-> "dict", value |-> <<>>]

JSONDecodeError == [type |-> "JSONDecodeError", value |-> None]

\* the keys of a dict (an empty dict has none)
Keys(d) == IF d.value = <<>> THEN {} ELSE DOMAIN d.value

\* The two keys with an umlaut, "abhaengigkeiten" and "prioritaet" here, are
\* written with a-umlaut in the source and as ä in the JSON texts.
LoginJson == "{\"feature_name\": \"login\", \"beschreibung\": \"b\", \"kategorie\": \"core\", \"abh\\u00e4ngigkeiten\": [], \"priorit\\u00e4t\": \"hoch\", \"confidence\": 0.9}"

EdgeJson == "{\"feature_name\": \"edge\", \"beschreibung\": \"b\", \"kategorie\": \"ui\", \"abh\\u00e4ngigkeiten\": [], \"priorit\\u00e4t\": \"mittel\", \"confidence\": 0.6}"

LowJson == "{\"feature_name\": \"low\", \"beschreibung\": \"b\", \"kategorie\": \"ui\", \"abh\\u00e4ngigkeiten\": [], \"priorit\\u00e4t\": \"mittel\", \"confidence\": 0.5}"

ListKategorieJson == "{\"feature_name\": \"tags\", \"beschreibung\": \"b\", \"kategorie\": [\"core\"], \"abh\\u00e4ngigkeiten\": [], \"priorit\\u00e4t\": \"hoch\", \"confidence\": 0.9}"

IntNameJson == "{\"feature_name\": 5, \"beschreibung\": \"b\", \"kategorie\": \"core\", \"abh\\u00e4ngigkeiten\": [], \"priorit\\u00e4t\": \"hoch\", \"confidence\": 0.9}"

AuditJson == "{\"feature_name\": \"audit\", \"beschreibung\": \"b\", \"kategorie\": \"technisch\", \"abh\\u00e4ngigkeiten\": [\"login\"], \"priorit\\u00e4t\": \"niedrig\", \"confidence\": 0.8}"

\* what json.loads makes of the feature objects above
Login ==
    [feature_name |-> JStr("login"), beschreibung |-> JStr("b"),
     kategorie |-> JStr("core"), abhaengigkeiten |-> JList(<<>>),
     prioritaet |-> JStr("hoch"), confidence |-> JNum(9, 10)]

Edge ==
    [feature_name |-> JStr("edge"), beschreibung |-> JStr("b"),
     kategorie |-> JStr("ui"), abhaengigkeiten |-> JList(<<>>),
     prioritaet |-> JStr("mittel"), confidence |-> JNum(6, 10)]

Low == [Edge EXCEPT !.feature_name = JStr("low"), !.confidence = JNum(5, 10)]

ListKategorie ==
    [Login EXCEPT !.feature_name = JStr("tags"), !.kategorie = JList(<<JStr("core")>>)]

IntName == [Login EXCEPT !.feature_name = JNum(5, 1)]

Audit ==
    [feature_name |-> JStr("audit"), beschreibung |-> JStr("b"),
     kategorie |-> JStr("technisch"), abhaengigkeiten |-> JList(<<JStr("login")>>),
     prioritaet |-> JStr("niedrig"), confidence |-> JNum(8, 10)]

\* the answers of the model
ProseText == "sorry, no features"

NumberText == "42"

BrokenText == "{oops}"

ClosedFirstText == "} none {"

FeaturesNoListText == "{\"features\": 5}"

ExplicitJson ==
    "{\"features\": [" \o LoginJson \o ", " \o LowJson \o ", {\"feature_name\": \"x\"}, 3]}"

\* the object with prose around it
ExplicitText == "Here: " \o ExplicitJson \o " Done."

ExplicitEdgeText == "{\"features\": [" \o EdgeJson \o ", " \o LoginJson \o "]}"

ListKategorieText == "{\"features\": [" \o ListKategorieJson \o "]}"

IntNameText == "{\"features\": [" \o IntNameJson \o "]}"

ImplicitText == "{\"implicit_features\": [" \o AuditJson \o "]}"

EnhanceText == "{\"priorit\\u00e4t\": \"niedrig\", \"user_story\": \"u\", \"estimated_complexity\": \"hoch\"}"

EnhanceListText == "{\"priorit\\u00e4t\": [\"hoch\"]}"

\* an enhancement answer that names the fields the enhancement keeps
EnhanceOverwriteText == "{\"feature_name\": \"other\", \"beschreibung\": \"new\", \"kategorie\": \"x\", \"confidence\": 0.1}"

MetadataText == "{\"name\": \"shop\"}"

ResponseTexts ==
    {ProseText, NumberText, BrokenText, ClosedFirstText, FeaturesNoListText,
     ExplicitText, ExplicitEdgeText, ListKategorieText, IntNameText,
     ImplicitText, EnhanceText, EnhanceListText, EnhanceOverwriteText, MetadataText}

\* json.loads on the texts it is given here: the value, or JSONDecodeError
JsonLoads(s) ==
    CASE s = NumberText -> JNum(42, 1)
      [] s = FeaturesNoListText -> JDict([features |-> JNum(5, 1)])
      [] s = ExplicitJson ->
            JDict([features |-> JList(<<JDict(Login), JDict(Low),
                                        JDict([feature_name |-> JStr("x")]),
                                        JNum(3, 1)>>)])
      [] s = ExplicitEdgeText -> JDict([features |-> JList(<<JDict(Edge), JDict(Login)>>)])
      [] s = ListKategorieText -> JDict([features |-> JList(<<JDict(ListKategorie)>>)])
      [] s = IntNameText -> JDict([features |-> JList(<<JDict(IntName)>>)])
      [] s = ImplicitText -> JDict([implicit_features |-> JList(<<JDict(Audit)>>)])
      [] s = EnhanceText ->
            JDict([prioritaet |-> JStr("niedrig"), user_story |-> JStr("u"),
                   estimated_complexity |-> JStr("hoch")])
      [] s = EnhanceListText -> JDict([prioritaet |-> JList(<<JStr("hoch")>>)])
      [] s = EnhanceOverwriteText ->
            JDict([feature_name |-> JStr("other"), beschreibung |-> JStr("new"),
                   kategorie |-> JStr("x"), confidence |-> JNum(1, 10)])
      [] s = MetadataText -> JDict([name |-> JStr("shop")])
      [] OTHER -> JSONDecodeError

\* re.search(r'\{.*\}', response_text, re.DOTALL): the text from the first
\* "{" to the last "}" after it, as <<text>>, or <<>> for no match
BraceSpan(response_text) ==
    LET opens == {k \in 1..Len(response_text) : Char(response_text, k) = "{"}
        closes == {k \in 1..Len(response_text) : Char(response_text, k) = "}"}
    IN  IF opens # {} /\ closes # {} /\ SetMin(opens) < SetMax(closes)
        THEN <<SubSeq(response_text, SetMin(opens), SetMax(closes))>>
        ELSE <<>>

\* _parse_ai_response(response_text)
ParseAiResponse(response_text) ==
    LET json_match == BraceSpan(response_text)
        loaded == IF json_match # <<>> THEN JsonLoads(json_match[1])
                  ELSE JsonLoads(response_text)
    IN  IF loaded = JSONDecodeError THEN EmptyDict ELSE loaded

\* _parse_ai_response on every answer of the model
Parsed == [t \in ResponseTexts |-> ParseAiResponse(t)]

\* ------------------------------------------------------------------------
\* ConfigManager, AIProviderManager and the Feature records

ProviderNames == {"ollama", "openai", "azure"}

\* AnalysisConfig.min_confidence
MinConfidence == Frac(6, 10)

\* the configuration without a file and without environment variables
DefaultConfig ==
    [default |-> "ollama", openai_api_key |-> FALSE, azure_api_key |-> FALSE,
     azure_endpoint |-> FALSE, azure_deployment_name |-> FALSE,
     enable_implicit_features |-> TRUE, min_confidence |-> MinConfidence]

\* the configurations of the model: any default provider, each API key set
\* or missing, the Azure endpoint and deployment set
Configs ==
    [default : ProviderNames, openai_api_key : BOOLEAN, azure_api_key : BOOLEAN,
     azure_endpoint : {TRUE}, azure_deployment_name : {TRUE},
     enable_implicit_features : BOOLEAN, min_confidence : {MinConfidence}]

\* AIProviderManager._initialize_providers: the names it registers
InitializeProviders(c) ==
    {"ollama"}
    \cup (IF c.openai_api_key THEN {"openai"} ELSE {})
    \cup (IF c.azure_api_key /\ c.azure_endpoint /\ c.azure_deployment_name
          THEN {"azure"} ELSE {})

\* an exception of the given class
Raises(kind) == [raised |-> kind]

\* what "await self.ai_manager.generate(messages)" can do: get_provider
\* raises ValueError for an active provider that is not registered; a
\* registered provider raises or answers with a text
GenerateOutcomes ==
    IF config.default \notin providers
    THEN {[raises |-> "ValueError", content |-> ""]}
    ELSE {[raises |-> "Exception", content |-> ""]}
         \cup {[raises |-> "", content |-> t] : t \in ResponseTexts}

\* the fields of Feature, and those without a default
RequiredFields ==
    {"feature_name", "beschreibung", "kategorie", "abhaengigkeiten",
     "prioritaet", "confidence"}

AllFields ==
    RequiredFields \cup {"user_story", "acceptance_criteria",
                         "technical_requirements", "estimated_complexity"}

\* the default of a field of Feature
FieldDefault(f) ==
    IF f \in {"acceptance_criteria", "technical_requirements"}
    THEN JList(<<>>) ELSE JNull

\* Feature(**feature_dict): the record, or TypeError for an argument that is
\* no mapping, lacks a required field or holds an unknown one
MakeFeature(feature_dict) ==
    IF \/ feature_dict.type # "dict"
       \/ ~(RequiredFields \subseteq Keys(feature_dict))
       \/ ~(Keys(feature_dict) \subseteq AllFields)
    THEN Raises("TypeError")
    ELSE [f \in AllFields |->
            IF f \in Keys(feature_dict) THEN feature_dict.value[f] ELSE FieldDefault(f)]

\* "feature.confidence >= min_confidence" without error and true
ConfidentEnough(feature) ==
    /\ feature.confidence.type = "number"
    /\ FracLeq(config.min_confidence, feature.confidence.value)

\* the loop over the feature dicts of an answer: the features it appends
RECURSIVE AcceptedFeatures(_)
AcceptedFeatures(dicts) ==
    IF dicts = <<>> THEN <<>>
    ELSE LET feature == MakeFeature(Head(dicts))
         IN  IF feature # Raises("TypeError") /\ ConfidentEnough(feature)
             THEN <<feature>> \o AcceptedFeatures(Tail(dicts))
             ELSE AcceptedFeatures(Tail(dicts))

\* the try block of _extract_explicit_features and _extract_implicit_features
\* for one outcome of the AI call: the list returned
FeaturesFrom(outcome, key) ==
    IF outcome.raises # "" THEN <<>>
    ELSE LET features_data == Parsed[outcome.content]
         IN  IF features_data.type # "dict" THEN <<>>
             ELSE IF key \notin Keys(features_data) THEN <<>>
             ELSE IF features_data.value[key].type # "list" THEN <<>>
             ELSE AcceptedFeatures(features_data.value[key].value)

\* enhancement_data.get(key, default)
Get(data, key, default) ==
    IF key \in Keys(data) THEN data.value[key] ELSE default

\* the enhancement taking every field the answer names from the answer
EnhanceSingleFeatureReplacing(feature, outcome) ==
    IF outcome.raises # "" THEN feature
    ELSE LET enhancement_data == Parsed[outcome.content]
         IN  IF enhancement_data.type # "dict" THEN feature
             ELSE [feature_name |-> Get(enhancement_data, "feature_name", feature.feature_name),
                   beschreibung |-> Get(enhancement_data, "beschreibung", feature.beschreibung),
                   kategorie |-> Get(enhancement_data, "kategorie", feature.kategorie),
                   abhaengigkeiten |-> Get(enhancement_data, "abhaengigkeiten", feature.abhaengigkeiten),
                   prioritaet |-> Get(enhancement_data, "prioritaet", feature.prioritaet),
                   confidence |-> Get(enhancement_data, "confidence", feature.confidence),
                   user_story |-> Get(enhancement_data, "user_story", JNull),
                   acceptance_criteria |-> Get(enhancement_data, "acceptance_criteria", JList(<<>>)),
                   technical_requirements |-> Get(enhancement_data, "technical_requirements", JList(<<>>)),
                   estimated_complexity |-> Get(enhancement_data, "estimated_complexity", JNull)]

\* _enhance_single_feature(feature, context) for one outcome of the AI call
EnhanceSingleFeature(feature, outcome) ==
    IF outcome.raises # "" THEN feature
    ELSE LET enhancement_data == Parsed[outcome.content]
         IN  IF enhancement_data.type # "dict" THEN feature
             ELSE [feature_name |-> feature.feature_name,
                   beschreibung |-> Get(enhancement_data, "beschreibung", feature.beschreibung),
                   kategorie |-> feature.kategorie,
                   abhaengigkeiten |-> Get(enhancement_data, "abhaengigkeiten", feature.abhaengigkeiten),
                   prioritaet |-> Get(enhancement_data, "prioritaet", feature.prioritaet),
                   confidence |-> feature.confidence,
                   user_story |-> Get(enhancement_data, "user_story", JNull),
                   acceptance_criteria |-> Get(enhancement_data, "acceptance_criteria", JList(<<>>)),
                   technical_requirements |-> Get(enhancement_data, "technical_requirements", JList(<<>>)),
                   estimated_complexity |-> Get(enhancement_data, "estimated_complexity", JNull)]

\* a value that can be the key of a dict
Hashable(v) == v.type \notin {"list", "dict"}

\* "if feature.estimated_complexity:"
TruthyValue(v) ==
    CASE v.type = "null" -> FALSE
      [] v.type = "str" -> v.value # ""
      [] v.type = "number" -> v.value.num # 0
      [] v.type = "list" -> v.value # <<>>
      [] v.type = "dict" -> Keys(v) # {}

\* the dict the loop of _create_analysis_summary builds for one attribute
CountBy(all_features, attribute) ==
    LET counted == {n \in 1..Len(all_features) :
                       attribute # "estimated_complexity"
                       \/ TruthyValue(all_features[n][attribute])}
    IN  [v \in {all_features[n][attribute] : n \in counted} |->
            Cardinality({n \in counted : all_features[n][attribute] = v})]

\* sum(f.confidence for f in all_features)
RECURSIVE SumConfidence(_)
SumConfidence(all_features) ==
    IF all_features = <<>> THEN Zero
    ELSE LET c == Head(all_features).confidence.value
             rest == SumConfidence(Tail(all_features))
         IN  Frac(c.num * rest.den + rest.num * c.den, c.den * rest.den)

\* _create_analysis_summary raises TypeError: a kategorie, a prioritaet or a
\* true estimated_complexity cannot be a dict key
SummaryRaises(all_features) ==
    \E n \in 1..Len(all_features) :
        \/ ~Hashable(all_features[n].kategorie)
        \/ ~Hashable(all_features[n].prioritaet)
        \/ /\ TruthyValue(all_features[n].estimated_complexity)
           /\ ~Hashable(all_features[n].estimated_complexity)

\* _create_analysis_summary(features, implicit_features, metadata)
CreateAnalysisSummary(features, implicit, metadata) ==
    LET all_features == features \o implicit
        total == SumConfidence(all_features)
    IN  [total_features |-> Len(all_features),
         explicit_features |-> Len(features),
         implicit_features |-> Len(implicit),
         categories |-> CountBy(all_features, "kategorie"),
         priorities |-> CountBy(all_features, "prioritaet"),
         complexities |-> CountBy(all_features, "estimated_complexity"),
         avg_confidence |-> IF all_features # <<>>
                            THEN Frac(total.num, total.den * Len(all_features))
                            ELSE Zero,
         high_priority_features |->
            Cardinality({n \in 1..Len(all_features) :
                            all_features[n].prioritaet = JStr("hoch")}),
         core_features |->
            Cardinality({n \in 1..Len(all_features) :
                            all_features[n].kategorie = JStr("core")})]

\* the state of a DocumentProcessor built with configuration c, before any
\* analysis
AnalyzerIdle(c) ==
    /\ config = c
    /\ providers = InitializeProviders(c)
    /\ apc = "idle"
    /\ explicit_features = <<>>
    /\ implicit_features = <<>>
    /\ enhanced_features = <<>>
    /\ enhanced_implicit = <<>>
    /\ project_metadata = None
    /\ ai_calls = <<>>
    /\ in_flight = <<>>
    /\ analysis = None

\* no generate call has been made on the manager by a caller of its own
ManagerIdle ==
    /\ gpc = "idle"
    /\ provider = None
    /\ dispatched = <<>>
    /\ response = None
    /\ generate_calls = 0

\* process_documents has not been called
ProcessorIdle ==
    /\ ppc = "idle"
    /\ extraction_results = <<>>
    /\ output_format = "all"
    /\ results = None
    /\ generations = 0

\* ------------------------------------------------------------------------
\* __init__ and segment_document

\* a new DocumentSegmenter, no call on it yet
SegmenterIdle ==
    /\ section_patterns = SectionPatternTable
    /\ heading_patterns = HeadingPatternTable
    /\ pc = "idle"
    /\ text = ""
    /\ lines = <<>>
    /\ i = 0
    /\ current_section = None
    /\ header_sections = <<>>
    /\ paragraphs = <<>>
    /\ sections = <<>>
    /\ calls = <<>>
    /\ result = <<>>
    /\ remembered = None
    /\ summary = None
    /\ suspended = None

Init == SegmenterIdle /\ AnalyzerIdle(DefaultConfig) /\ ManagerIdle /\ ProcessorIdle

\* segment_document(t) is entered and calls _segment_by_headers(t)
Enter(t) ==
    /\ text' = t
    /\ lines' = Split(t, "\n")
    /\ i' = 0
    /\ current_section' = None
    /\ header_sections' = <<>>
    /\ paragraphs' = <<>>
    /\ sections' = <<>>
    /\ calls' = <<"_segment_by_headers">>
    /\ result' = <<>>
    /\ pc' = "scan"
    /\ UNCHANGED <<section_patterns, heading_patterns, remembered, summary,
                   suspended, analyzer, manager, processor>>

Call == pc = "idle" /\ \E t \in Inputs : Enter(t)

\* "Save previous section": join and trim the content, set the end
Closed(section, end) ==
    [title |-> section.title,
     content |-> Strip(Join(section.content, "\n")),
     start |-> section.start,
     end |-> end]

\* the loop body without "Save previous section"
ScanLineNoSave ==
    /\ pc = "scan"
    /\ i < Len(lines)
    /\ LET line == lines[i + 1]
           header_match == DetectHeader(line, lines, i)
       IN  IF Truthy(header_match)
           THEN /\ header_sections' = header_sections
                /\ current_section' =
                      [title |-> header_match[1], content |-> <<>>, start |-> i]
           ELSE /\ header_sections' = header_sections
                /\ current_section' =
                      IF current_section # None
                      THEN [current_section EXCEPT !.content = Append(@, line)]
                      ELSE current_section
    /\ i' = i + 1
    /\ UNCHANGED <<section_patterns, heading_patterns, pc, text, lines,
                   paragraphs, sections, calls, result, remembered, summary,
                   suspended, analyzer, manager, processor>>

\* one iteration of the loop over the lines in _segment_by_headers
ScanLine ==
    /\ pc = "scan"
    /\ i < Len(lines)
    /\ LET line == lines[i + 1]
           header_match == DetectHeader(line, lines, i)
       IN  IF Truthy(header_match)
           THEN /\ header_sections' =
                      IF current_section # None
                      THEN Append(header_sections, Closed(current_section, i))
                      ELSE header_sections
                /\ current_section' =
                      [title |-> header_match[1], content |-> <<>>, start |-> i]
           ELSE /\ header_sections' = header_sections
                /\ current_section' =
                      IF current_section # None
                      THEN [current_section EXCEPT !.content = Append(@, line)]
                      ELSE current_section
    /\ i' = i + 1
    /\ UNCHANGED <<section_patterns, heading_patterns, pc, text, lines,
                   paragraphs, sections, calls, result, remembered, summary,
                   suspended, analyzer, manager, processor>>

\* an initial current_section of another type
GeneralBucketUntyped == [content |-> <<>>, type |-> "unknown", confidence |-> Frac(3, 10)]

\* the initial current_section of _segment_by_patterns
GeneralBucket == [content |-> <<>>, type |-> "general", confidence |-> Frac(3, 10)]

\* the end of the scan closing the last section at the index of the last line
EndScanAtLastIndex ==
    /\ pc = "scan"
    /\ i = Len(lines)
    /\ LET returned == IF current_section # None
                       THEN Append(header_sections,
                                   Closed(current_section, Len(lines) - 1))
                       ELSE header_sections
       IN  /\ header_sections' = returned
           /\ IF returned # <<>>
              THEN /\ pc' = "classify"
                   /\ current_section' = None
                   /\ paragraphs' = paragraphs
                   /\ calls' = calls
              ELSE /\ pc' = "paragraphs"
                   /\ current_section' = GeneralBucket
                   /\ paragraphs' = Split(text, "\n\n")
                   /\ calls' = Append(calls, "_segment_by_patterns")
    /\ i' = 0
    /\ UNCHANGED <<section_patterns, heading_patterns, text, lines, sections,
                   result, remembered, summary,
                   suspended, analyzer, manager, processor>>

\* the end of _segment_by_headers ("Don't forget the last section") and the
\* choice of segment_document between the two paths
EndScan ==
    /\ pc = "scan"
    /\ i = Len(lines)
    /\ LET returned == IF current_section # None
                       THEN Append(header_sections, Closed(current_section, Len(lines)))
                       ELSE header_sections
       IN  /\ header_sections' = returned
           /\ IF returned # <<>>
              THEN /\ pc' = "classify"
                   /\ current_section' = None
                   /\ paragraphs' = paragraphs
                   /\ calls' = calls
              ELSE /\ pc' = "paragraphs"
                   /\ current_section' = GeneralBucket
                   /\ paragraphs' = Split(text, "\n\n")
                   /\ calls' = Append(calls, "_segment_by_patterns")
    /\ i' = 0
    /\ UNCHANGED <<section_patterns, heading_patterns, text, lines, sections,
                   result, remembered, summary,
                   suspended, analyzer, manager, processor>>

DocumentSection(title, content, section_type, confidence, start, end) ==
    [title |-> title, content |-> content, section_type |-> section_type,
     confidence |-> confidence, start_position |-> start, end_position |-> end]

\* the iteration putting the classified section in front of the earlier ones
ClassifyHeaderSectionPrepending ==
    /\ pc = "classify"
    /\ i < Len(header_sections)
    /\ LET section == header_sections[i + 1]
           classified == ClassifySection(section.title, section.content)
       IN  IF classified = Raised
           THEN /\ pc' = "raised"
                /\ sections' = sections
           ELSE /\ pc' = pc
                /\ sections' = <<DocumentSection(section.title, section.content,
                                      classified.type, classified.confidence,
                                      section.start, section.end)>> \o sections
    /\ i' = i + 1
    /\ UNCHANGED <<section_patterns, heading_patterns, text, lines, current_section,
                   header_sections, paragraphs, calls, result, remembered, summary,
                   suspended, analyzer, manager, processor>>

\* one iteration of "for section in header_sections" in segment_document
ClassifyHeaderSection ==
    /\ pc = "classify"
    /\ i < Len(header_sections)
    /\ LET section == header_sections[i + 1]
           classified == ClassifySection(section.title, section.content)
       IN  IF classified = Raised
           THEN /\ pc' = "raised"
                /\ sections' = sections
           ELSE /\ pc' = pc
                /\ sections' = Append(sections,
                      DocumentSection(section.title, section.content, classified.type,
                                      classified.confidence, section.start, section.end))
    /\ i' = i + 1
    /\ UNCHANGED <<section_patterns, heading_patterns, text, lines, current_section,
                   header_sections, paragraphs, calls, result, remembered, summary,
                   suspended, analyzer, manager, processor>>

\* the DocumentSection titled with the number of sections before it
EmittedCountingFromZero(section, n) ==
    DocumentSection("Section " \o ToString(n - 1), Join(section.content, "\n\n"),
                    section.type, section.confidence, 0, 0)

\* the DocumentSection _segment_by_patterns makes of its current_section
Emitted(section, n) ==
    DocumentSection("Section " \o ToString(n), Join(section.content, "\n\n"),
                    section.type, section.confidence, 0, 0)

SixTenths == Frac(6, 10)

\* the loop body without the append of the section a new one replaces
ParagraphStepNoFlush ==
    /\ pc = "paragraphs"
    /\ i < Len(paragraphs)
    /\ LET paragraph == Strip(paragraphs[i + 1])
           classified == IF paragraph = "" THEN General ELSE ClassifyText(paragraph)
       IN  IF paragraph = ""
           THEN UNCHANGED <<pc, sections, current_section>>
           ELSE IF classified = Raised
           THEN pc' = "raised" /\ UNCHANGED <<sections, current_section>>
           ELSE IF classified.type # "general" /\ FracLess(SixTenths, classified.confidence)
           THEN /\ sections' = sections
                /\ current_section' =
                      [content |-> <<paragraph>>, type |-> classified.type,
                       confidence |-> classified.confidence]
                /\ pc' = pc
           ELSE /\ current_section' =
                      [current_section EXCEPT !.content = Append(@, paragraph)]
                /\ UNCHANGED <<pc, sections>>
    /\ i' = i + 1
    /\ UNCHANGED <<section_patterns, heading_patterns, text, lines, header_sections,
                   paragraphs, calls, result, remembered, summary,
                   suspended, analyzer, manager, processor>>

\* the iteration giving the current section the category of a paragraph it
\* appends
ParagraphStepRetyping ==
    /\ pc = "paragraphs"
    /\ i < Len(paragraphs)
    /\ LET paragraph == Strip(paragraphs[i + 1])
           classified == IF paragraph = "" THEN General ELSE ClassifyText(paragraph)
       IN  IF paragraph = ""
           THEN UNCHANGED <<pc, sections, current_section>>
           ELSE IF classified = Raised
           THEN pc' = "raised" /\ UNCHANGED <<sections, current_section>>
           ELSE IF classified.type # "general" /\ FracLess(SixTenths, classified.confidence)
           THEN /\ sections' =
                      IF current_section.content # <<>>
                      THEN Append(sections, Emitted(current_section, Len(sections) + 1))
                      ELSE sections
                /\ current_section' =
                      [content |-> <<paragraph>>, type |-> classified.type,
                       confidence |-> classified.confidence]
                /\ pc' = pc
           ELSE /\ current_section' =
                      [content |-> Append(current_section.content, paragraph),
                       type |-> IF classified.type # "general" THEN classified.type
                                ELSE current_section.type,
                       confidence |-> IF classified.type # "general"
                                      THEN classified.confidence
                                      ELSE current_section.confidence]
                /\ UNCHANGED <<pc, sections>>
    /\ i' = i + 1
    /\ UNCHANGED <<section_patterns, heading_patterns, text, lines, header_sections,
                   paragraphs, calls, result, remembered, summary,
                   suspended, analyzer, manager, processor>>

\* one iteration of the loop over the paragraphs in _segment_by_patterns
ParagraphStep ==
    /\ pc = "paragraphs"
    /\ i < Len(paragraphs)
    /\ LET paragraph == Strip(paragraphs[i + 1])
           classified == IF paragraph = "" THEN General ELSE ClassifyText(paragraph)
       IN  IF paragraph = ""
           THEN UNCHANGED <<pc, sections, current_section>>
           ELSE IF classified = Raised
           THEN pc' = "raised" /\ UNCHANGED <<sections, current_section>>
           ELSE IF classified.type # "general" /\ FracLess(SixTenths, classified.confidence)
           THEN /\ sections' =
                      IF current_section.content # <<>>
                      THEN Append(sections, Emitted(current_section, Len(sections) + 1))
                      ELSE sections
                /\ current_section' =
                      [content |-> <<paragraph>>, type |-> classified.type,
                       confidence |-> classified.confidence]
                /\ pc' = pc
           ELSE /\ current_section' =
                      [current_section EXCEPT !.content = Append(@, paragraph)]
                /\ UNCHANGED <<pc, sections>>
    /\ i' = i + 1
    /\ UNCHANGED <<section_patterns, heading_patterns, text, lines, header_sections,
                   paragraphs, calls, result, remembered, summary,
                   suspended, analyzer, manager, processor>>

\* the end of the loop without "Add final section"
EndParagraphsNoFinal ==
    /\ pc = "paragraphs"
    /\ i = Len(paragraphs)
    /\ pc' = "return"
    /\ UNCHANGED <<section_patterns, heading_patterns, text, lines, i, current_section,
                   header_sections, paragraphs, sections, calls, result, remembered, summary,
                   suspended, analyzer, manager, processor>>

\* "Add final section" and the return of _segment_by_patterns
EndParagraphs ==
    /\ pc = "paragraphs"
    /\ i = Len(paragraphs)
    /\ sections' =
          IF current_section.content # <<>>
          THEN Append(sections, Emitted(current_section, Len(sections) + 1))
          ELSE sections
    /\ pc' = "return"
    /\ UNCHANGED <<section_patterns, heading_patterns, text, lines, i, current_section,
                   header_sections, paragraphs, calls, result, remembered, summary,
                   suspended, analyzer, manager, processor>>

\* a return that empties the patterns of a category it has used
ReturnClearingPatterns ==
    /\ \/ pc = "classify" /\ i = Len(header_sections)
       \/ pc = "return"
    /\ pc' = "done"
    /\ result' = sections
    /\ section_patterns' = [section_patterns EXCEPT !.api = <<>>]
    /\ UNCHANGED <<heading_patterns, text, lines, i, current_section,
                   header_sections, paragraphs, sections, calls, remembered, summary,
                   suspended, analyzer, manager, processor>>

\* "return sections" of segment_document
Return ==
    /\ \/ pc = "classify" /\ i = Len(header_sections)
       \/ pc = "return"
    /\ pc' = "done"
    /\ result' = sections
    /\ UNCHANGED <<section_patterns, heading_patterns, text, lines, i, current_section,
                   header_sections, paragraphs, sections, calls, remembered, summary,
                   suspended, analyzer, manager, processor>>

\* the sum of two fractions
FracAdd(a, b) == Frac(a.num * b.den + b.num * a.den, a.den * b.den)

\* the loop body that sets the count of a type to 1 each time
SummaryStepNoIncrement(acc, section) ==
    [section_types |->
        [t \in DOMAIN acc.section_types \cup {section.section_type} |->
            IF t = section.section_type THEN 1 ELSE acc.section_types[t]],
     total_confidence |-> FracAdd(acc.total_confidence, section.confidence),
     total_content_length |-> acc.total_content_length + Len(section.content)]

\* the loop body of get_section_summary
SummaryStep(acc, section) ==
    [section_types |->
        [t \in DOMAIN acc.section_types \cup {section.section_type} |->
            IF t = section.section_type
            THEN (IF t \in DOMAIN acc.section_types THEN acc.section_types[t] ELSE 0) + 1
            ELSE acc.section_types[t]],
     total_confidence |-> FracAdd(acc.total_confidence, section.confidence),
     total_content_length |-> acc.total_content_length + Len(section.content)]

\* the loop of get_section_summary over the sections left
RECURSIVE SummaryLoop(_, _)
SummaryLoop(acc, rest) ==
    IF rest = <<>> THEN acc
    ELSE SummaryLoop(SummaryStep(acc, Head(rest)), Tail(rest))

\* get_section_summary(given)
SectionSummary(given) ==
    LET acc == SummaryLoop([section_types |-> <<>>, total_confidence |-> Zero,
                            total_content_length |-> 0], given)
    IN  [total_sections |-> Len(given),
         section_types |-> acc.section_types,
         avg_confidence |-> IF given # <<>>
                            THEN Frac(acc.total_confidence.num,
                                      acc.total_confidence.den * Len(given))
                            ELSE Zero,
         total_content_length |-> acc.total_content_length]

\* the caller asks for the summary of the list it got
GetSectionSummary ==
    /\ pc = "done"
    /\ summary' = SectionSummary(result)
    /\ pc' = "summarized"
    /\ UNCHANGED <<section_patterns, heading_patterns, text, lines, i,
                   current_section, header_sections, paragraphs, sections, calls,
                   result, remembered, suspended, analyzer, manager, processor>>

\* the caller has the returned list; the locals of the call are gone
Release ==
    /\ pc \in {"done", "summarized"}
    /\ pc' = "idle"
    /\ text' = ""
    /\ lines' = <<>>
    /\ i' = 0
    /\ current_section' = None
    /\ header_sections' = <<>>
    /\ paragraphs' = <<>>
    /\ sections' = <<>>
    /\ calls' = <<>>
    /\ result' = <<>>
    /\ summary' = None
    /\ UNCHANGED <<section_patterns, heading_patterns, remembered, suspended, analyzer, manager, processor>>

Next ==
    \/ Call
    \/ ScanLine
    \/ EndScan
    \/ ClassifyHeaderSection
    \/ ParagraphStep
    \/ EndParagraphs
    \/ Return
    \/ GetSectionSummary
    \/ Release

Spec == Init /\ [][Next]_vars

\* ------------------------------------------------------------------------
\* Several calls on one DocumentSegmenter, the first one's result kept by
\* the caller

RepeatInputs == CatalogueDocuments(MaxRepeatLines) \cup ExampleDocuments

CallAgain == pc = "idle" /\ \E t \in RepeatInputs : Enter(t)

\* the caller keeps the text and the result of the first call
ReleaseRemembered ==
    /\ pc = "done"
    /\ remembered = None
    /\ remembered' = [text |-> text, result |-> result]
    /\ pc' = "idle"
    /\ text' = ""
    /\ lines' = <<>>
    /\ i' = 0
    /\ current_section' = None
    /\ header_sections' = <<>>
    /\ paragraphs' = <<>>
    /\ sections' = <<>>
    /\ calls' = <<>>
    /\ result' = <<>>
    /\ summary' = None
    /\ UNCHANGED <<section_patterns, heading_patterns, suspended, analyzer, manager, processor>>

NextRepeat ==
    \/ CallAgain
    \/ ScanLine
    \/ EndScan
    \/ ClassifyHeaderSection
    \/ ParagraphStep
    \/ EndParagraphs
    \/ Return
    \/ Release
    \/ ReleaseRemembered

SpecRepeat == Init /\ [][NextRepeat]_vars

\* ------------------------------------------------------------------------
\* Two callers of segment_document on one DocumentSegmenter: the locals of
\* the call that is not running are kept in suspended; the two pattern tables
\* are the segmenter's and are shared

ConcurrentInputs ==
    {"# api\nok, fine.", "see data 1.\n\nok, fine.", UnderlinedDoc, ParagraphsDoc}

\* the locals of the running call
RunningFrame ==
    [pc |-> pc, text |-> text, lines |-> lines, i |-> i,
     current_section |-> current_section, header_sections |-> header_sections,
     paragraphs |-> paragraphs, sections |-> sections, calls |-> calls,
     result |-> result]

\* the locals of a caller that has no call under way
IdleFrame ==
    [pc |-> "idle", text |-> "", lines |-> <<>>, i |-> 0,
     current_section |-> None, header_sections |-> <<>>, paragraphs |-> <<>>,
     sections |-> <<>>, calls |-> <<>>, result |-> <<>>]

\* the frame of the caller that is not running
OtherFrame == IF suspended = None THEN IdleFrame ELSE suspended

CallConcurrent == pc = "idle" /\ \E t \in ConcurrentInputs : Enter(t)

\* a switch that leaves the list under construction where it is, as if it
\* were an attribute of the segmenter
SwitchSharingSections ==
    /\ remembered # None
    /\ pc # "done"
    /\ suspended' = RunningFrame
    /\ pc' = OtherFrame.pc
    /\ text' = OtherFrame.text
    /\ lines' = OtherFrame.lines
    /\ i' = OtherFrame.i
    /\ current_section' = OtherFrame.current_section
    /\ header_sections' = OtherFrame.header_sections
    /\ paragraphs' = OtherFrame.paragraphs
    /\ calls' = OtherFrame.calls
    /\ result' = OtherFrame.result
    /\ UNCHANGED <<section_patterns, heading_patterns, sections, remembered,
                   summary, analyzer, manager, processor>>

\* the scheduler lets the other caller run: every local of the running call
\* is set aside and the other call's locals come back. A call that has
\* returned is released by its caller first. The first call, the one
\* remembered, has run alone.
Switch ==
    /\ remembered # None
    /\ pc # "done"
    /\ suspended' = RunningFrame
    /\ pc' = OtherFrame.pc
    /\ text' = OtherFrame.text
    /\ lines' = OtherFrame.lines
    /\ i' = OtherFrame.i
    /\ current_section' = OtherFrame.current_section
    /\ header_sections' = OtherFrame.header_sections
    /\ paragraphs' = OtherFrame.paragraphs
    /\ sections' = OtherFrame.sections
    /\ calls' = OtherFrame.calls
    /\ result' = OtherFrame.result
    /\ UNCHANGED <<section_patterns, heading_patterns, remembered, summary, analyzer, manager, processor>>

NextConcurrent ==
    \/ CallConcurrent
    \/ ScanLine
    \/ EndScan
    \/ ClassifyHeaderSection
    \/ ParagraphStep
    \/ EndParagraphs
    \/ Return
    \/ Release
    \/ ReleaseRemembered
    \/ Switch

SpecConcurrent == Init /\ [][NextConcurrent]_vars

\* ------------------------------------------------------------------------
\* DocumentProcessor.analyze_features_only: FeatureAnalyzer.analyze_document
\* step by step, one AI call per step

segmenter == <<section_patterns, heading_patterns, pc, text, lines, i,
               current_section, header_sections, paragraphs, sections, calls,
               result, remembered, summary, suspended>>

\* the step after the two extractions with the two enhancement loops in the
\* other order
AfterExtractionImplicitFirst(explicit, implicit) ==
    IF implicit # <<>> THEN "enhance_implicit"
    ELSE IF explicit # <<>> THEN "enhance_explicit"
    ELSE "metadata"

\* the step after the two extractions: _enhance_features returns at once for
\* an empty list
AfterExtraction(explicit, implicit) ==
    IF explicit # <<>> THEN "enhance_explicit"
    ELSE IF implicit # <<>> THEN "enhance_implicit"
    ELSE "metadata"

\* analyze_document is entered
AnalyzeDocument ==
    /\ apc = "idle"
    /\ apc' = "explicit"
    /\ UNCHANGED <<config, providers, explicit_features, implicit_features,
                   enhanced_features, enhanced_implicit, project_metadata,
                   ai_calls, in_flight, analysis, segmenter, manager, processor>>

\* ', '.join(explicit_names) of _extract_implicit_features, before the try
\* block, raises TypeError for a feature_name that is no str
JoinRaises ==
    \E n \in 1..Len(explicit_features) : explicit_features[n].feature_name.type # "str"

\* the prompt of the call each step makes
PromptAt ==
    [explicit |-> "feature_extraction", implicit |-> "implicit_analysis",
     enhance_explicit |-> "technical_analysis",
     enhance_implicit |-> "technical_analysis", metadata |-> "project_metadata"]

\* a call of ai_manager.generate: its system prompt and the feature it is about
AiCall(prompt, feature) == [prompt |-> prompt, feature |-> feature]

\* the call the step at hand makes
CallAt ==
    AiCall(PromptAt[apc],
           IF apc = "enhance_explicit" THEN explicit_features[Len(enhanced_features) + 1]
           ELSE IF apc = "enhance_implicit"
                THEN implicit_features[Len(enhanced_implicit) + 1]
           ELSE None)

\* "await self.ai_manager.generate(messages)" is reached: the call is made
\* and the coroutine waits for its answer
AwaitGenerate ==
    /\ apc \in DOMAIN PromptAt
    /\ in_flight = <<>>
    /\ ~(apc = "implicit" /\ JoinRaises)
    /\ ai_calls' = Append(ai_calls, CallAt)
    /\ in_flight' = Append(in_flight, CallAt)
    /\ UNCHANGED <<config, providers, apc, explicit_features, implicit_features,
                   enhanced_features, enhanced_implicit, project_metadata,
                   analysis, segmenter, manager, processor>>

\* Step 1: _extract_explicit_features, from the answer of its call on
ExtractExplicitFeatures ==
    /\ apc = "explicit"
    /\ in_flight # <<>>
    /\ \E outcome \in GenerateOutcomes :
          /\ explicit_features' = FeaturesFrom(outcome, "features")
          /\ apc' = IF config.enable_implicit_features THEN "implicit"
                    ELSE AfterExtraction(explicit_features', <<>>)
    /\ in_flight' = Tail(in_flight)
    /\ UNCHANGED <<config, providers, implicit_features, enhanced_features,
                   enhanced_implicit, project_metadata, ai_calls, analysis, segmenter, manager, processor>>

\* Step 2: _extract_implicit_features: the TypeError of the join, or the
\* rest of the method from the answer of its call on
ExtractImplicitFeatures ==
    /\ apc = "implicit"
    /\ IF JoinRaises
       THEN /\ apc' = "raised"
            /\ analysis' = Raises("TypeError")
            /\ UNCHANGED <<implicit_features, in_flight>>
       ELSE /\ in_flight # <<>>
            /\ \E outcome \in GenerateOutcomes :
                  implicit_features' = FeaturesFrom(outcome, "implicit_features")
            /\ in_flight' = Tail(in_flight)
            /\ apc' = AfterExtraction(explicit_features, implicit_features')
            /\ UNCHANGED analysis
    /\ UNCHANGED <<config, providers, explicit_features, enhanced_features,
                   enhanced_implicit, project_metadata, ai_calls, segmenter, manager, processor>>

\* Step 3: one iteration of the loop of _enhance_features(explicit_features),
\* from the answer of its call on
EnhanceExplicitFeature ==
    /\ apc = "enhance_explicit"
    /\ in_flight # <<>>
    /\ \E outcome \in GenerateOutcomes :
          enhanced_features' =
              Append(enhanced_features,
                     EnhanceSingleFeature(explicit_features[Len(enhanced_features) + 1],
                                          outcome))
    /\ in_flight' = Tail(in_flight)
    /\ apc' = IF Len(enhanced_features') < Len(explicit_features) THEN apc
              ELSE AfterExtraction(<<>>, implicit_features)
    /\ UNCHANGED <<config, providers, explicit_features, implicit_features,
                   enhanced_implicit, project_metadata, ai_calls, analysis, segmenter, manager, processor>>

\* Step 3: one iteration of the loop of _enhance_features(implicit_features),
\* from the answer of its call on
EnhanceImplicitFeature ==
    /\ apc = "enhance_implicit"
    /\ in_flight # <<>>
    /\ \E outcome \in GenerateOutcomes :
          enhanced_implicit' =
              Append(enhanced_implicit,
                     EnhanceSingleFeature(implicit_features[Len(enhanced_implicit) + 1],
                                          outcome))
    /\ in_flight' = Tail(in_flight)
    /\ apc' = IF Len(enhanced_implicit') < Len(implicit_features) THEN apc
              ELSE "metadata"
    /\ UNCHANGED <<config, providers, explicit_features, implicit_features,
                   enhanced_features, project_metadata, ai_calls, analysis, segmenter, manager, processor>>

\* Step 4: _analyze_project_metadata, from the answer of its call on
AnalyzeProjectMetadata ==
    /\ apc = "metadata"
    /\ in_flight # <<>>
    /\ \E outcome \in GenerateOutcomes :
          project_metadata' = IF outcome.raises # "" THEN EmptyDict
                              ELSE Parsed[outcome.content]
    /\ in_flight' = Tail(in_flight)
    /\ apc' = "summary"
    /\ UNCHANGED <<config, providers, explicit_features, implicit_features,
                   enhanced_features, enhanced_implicit, ai_calls, analysis, segmenter, manager, processor>>

\* Step 5 and the return: _create_analysis_summary is not in a try block
ReturnAnalysis ==
    /\ apc = "summary"
    /\ IF SummaryRaises(enhanced_features \o enhanced_implicit)
       THEN /\ apc' = "raised"
            /\ analysis' = Raises("TypeError")
       ELSE /\ apc' = "returned"
            /\ analysis' =
                  [features |-> enhanced_features,
                   implicit_features |-> enhanced_implicit,
                   project_metadata |-> project_metadata,
                   analysis_summary |->
                      CreateAnalysisSummary(enhanced_features, enhanced_implicit,
                                            project_metadata)]
    /\ UNCHANGED <<config, providers, explicit_features, implicit_features,
                   enhanced_features, enhanced_implicit, project_metadata,
                   ai_calls, in_flight, segmenter, manager, processor>>

NextAnalysis ==
    \/ AnalyzeDocument
    \/ AwaitGenerate
    \/ ExtractExplicitFeatures
    \/ ExtractImplicitFeatures
    \/ EnhanceExplicitFeature
    \/ EnhanceImplicitFeature
    \/ AnalyzeProjectMetadata
    \/ ReturnAnalysis

\* a DocumentProcessor of any configuration
InitAnalysis ==
    SegmenterIdle /\ ManagerIdle /\ ProcessorIdle /\ \E c \in Configs : AnalyzerIdle(c)

SpecAnalysis == InitAnalysis /\ [][NextAnalysis]_vars

\* ------------------------------------------------------------------------
\* Properties of segment_document

Done == pc = "done"

HeaderPath == calls = <<"_segment_by_headers">>

FallbackPath == calls = <<"_segment_by_headers", "_segment_by_patterns">>

SectionTypes == {"ziele", "anforderungen", "features", "technisch",
                 "user_stories", "api", "daten", "general"}

\* the indices (from 0) of the lines of t that _detect_header takes as headers
HeaderLines(t) ==
    LET ls == Split(t, "\n")
    IN  {k \in 0..(Len(ls) - 1) : Truthy(DetectHeader(ls[k + 1], ls, k))}

\* C1: in the header path every line of the input (blank lines, which the
\* trimming of a content may remove, aside) belongs to exactly one returned
\* section, as its header line or in its content, lines before the first
\* header included.
C1_EveryLineInOneSection ==
    (Done /\ HeaderPath) =>
        LET ls == Split(text, "\n")
        IN  /\ \A k \in {j \in 0..(Len(ls) - 1) : Strip(ls[j + 1]) # ""} :
                  Cardinality({n \in 1..Len(result) :
                      /\ result[n].start_position <= k
                      /\ k < result[n].end_position}) = 1
            /\ \A n \in 1..Len(result) :
                  result[n].content =
                      Strip(Join(SubSeq(ls, result[n].start_position + 2,
                                        result[n].end_position), "\n"))

\* C2 as stated: every input of length at least 1 yields at least one section.
C2_NonEmptyInputYieldsSection ==
    (Done /\ Len(text) >= 1) => Len(result) >= 1

\* C2, amended: every input that holds at least one non-whitespace character
\* yields at least one section (a text of whitespace only yields none).
C2_NonBlankInputYieldsSection ==
    /\ (Done /\ Strip(text) # "") => Len(result) >= 1
    /\ (Done /\ Strip(text) = "") => result = <<>>

C2_Witness ==
    /\ Done /\ FallbackPath
    /\ Strip(text) # "" /\ Len(Split(text, "\n")) > 1
    /\ Len(result) >= 1

\* C3: every section built, on either path, has 0 <= confidence <= 1.
C3_ConfidenceInUnitInterval ==
    \A n \in 1..Len(sections) :
        /\ sections[n].confidence.den > 0
        /\ FracLeq(Zero, sections[n].confidence)
        /\ FracLeq(sections[n].confidence, One)

\* a header section whose title and content both score 1.0: 0.7 + 0.3
C3_Witness ==
    /\ Done /\ HeaderPath
    /\ \E n \in 1..Len(result) :
          /\ result[n].confidence = One
          /\ ClassifyText(result[n].title).confidence = One
          /\ ClassifyText(result[n].content).confidence = One
          /\ ClassifyText(result[n].content).type # "general"

\* C4: segment_document never raises (the division in _classify_text never
\* divides by zero: a text with a pattern match has at least one word) and
\* returns the empty list for the empty string.
C4_NeverRaises ==
    /\ pc # "raised"
    /\ (Done /\ text = "") => result = <<>>
    /\ Done =>
          \A n \in 1..Len(result) : \A c \in DOMAIN section_patterns :
              /\ RawScore(c, result[n].content) > 0 => WordCount(result[n].content) > 0
              /\ RawScore(c, result[n].title) > 0 => WordCount(result[n].title) > 0

C4_Witness == Done /\ text = "" /\ FallbackPath /\ result = <<>>

\* C5: a call on a text returns what the first call on the same text
\* returned, whatever calls were made in between, and no call changes the
\* pattern tables a later call reads.
C5_RepeatedCallSameResult ==
    /\ (Done /\ remembered # None /\ remembered.text = text) =>
          result = remembered.result
    /\ section_patterns = SectionPatternTable
    /\ heading_patterns = HeadingPatternTable

\* a second call on the text of the first has returned a non-empty list
C5_Witness ==
    /\ Done /\ remembered # None /\ remembered.text = text
    /\ Len(result) > 0 /\ result = remembered.result

\* some category pattern matches t
SomePatternMatches(t) == \E c \in DOMAIN section_patterns : RawScore(c, t) > 0

\* t classifies to a category with confidence above 0.6
StartsSection(t) ==
    /\ ClassifyText(t).type # "general"
    /\ FracLess(Frac(3, 5), ClassifyText(t).confidence)

\* C6 as stated: every section's type is one of the eight names, and a
\* section is typed general only when no category pattern matched its text,
\* its confidence then being exactly 0.3.
C6_GeneralOnlyWithoutMatch ==
    Done => \A n \in 1..Len(result) :
        /\ result[n].section_type \in SectionTypes
        /\ result[n].section_type = "general" =>
              /\ result[n].confidence = Frac(3, 10)
              /\ ~SomePatternMatches(result[n].content)
              /\ HeaderPath => ~SomePatternMatches(result[n].title)

\* C6, amended: every section's type is one of the eight names; a section
\* typed general has confidence exactly 0.3; in the header path it is typed
\* general only when no pattern matched its content and its title did not
\* classify with confidence above 0.5, and in the fallback path only when it
\* is the first section and none of its paragraphs classifies to a category
\* with confidence above 0.6.
C6_TypesAndGeneralDefault ==
    Done => \A n \in 1..Len(result) :
        /\ result[n].section_type \in SectionTypes
        /\ result[n].section_type = "general" =>
              /\ result[n].confidence = Frac(3, 10)
              /\ HeaderPath =>
                    /\ ~SomePatternMatches(result[n].content)
                    /\ FracLeq(ClassifyText(result[n].title).confidence, Frac(1, 2))
              /\ FallbackPath =>
                    /\ n = 1
                    /\ \A q \in 1..Len(Split(result[n].content, "\n\n")) :
                          ~StartsSection(Split(result[n].content, "\n\n")[q])

\* a general section of the header path whose title matched a pattern
C6_Witness ==
    /\ Done /\ HeaderPath
    /\ \E n \in 1..Len(result) :
          /\ result[n].section_type = "general"
          /\ result[n].confidence = Frac(3, 10)
          /\ SomePatternMatches(result[n].title)

\* a single line, not blank, of letters, digits and spaces only
SingleLineNoPunctuation(t) ==
    /\ Strip(t) # ""
    /\ \A k \in 1..Len(t) :
          Char(t, k) \in UpperLetters \cup LowerLetters \cup Digits \cup {" "}

\* C7 as stated: a single line without punctuation is handled by the
\* paragraph fallback (no header is detected) and yields exactly one
\* section, of type general.
C7_SingleLineIsOneGeneralSection ==
    (Done /\ SingleLineNoPunctuation(text)) =>
        /\ FallbackPath
        /\ Len(result) = 1
        /\ result[1].section_type = "general"

\* C7, amended: a single line without punctuation yields exactly one
\* section; when no header is detected on the line (one is on "1 goals" or
\* "INTRODUCTION") it is handled by the paragraph fallback, and the section,
\* titled "Section 1", is general with confidence 0.3 unless the line
\* classifies to a category with confidence above 0.6, whose type it then has.
C7_SingleLineIsOneSection ==
    (Done /\ SingleLineNoPunctuation(text)) =>
        /\ Len(result) = 1
        /\ HeaderLines(text) = {} =>
              /\ FallbackPath
              /\ result[1].title = "Section 1"
              /\ result[1].content = Strip(text)
              /\ IF StartsSection(Strip(text))
                 THEN result[1].section_type = ClassifyText(Strip(text)).type
                 ELSE /\ result[1].section_type = "general"
                      /\ result[1].confidence = Frac(3, 10)

\* a single short line that holds a keyword: one section, typed by it
C7_Witness ==
    /\ Done /\ SingleLineNoPunctuation(text) /\ FallbackPath
    /\ HeaderLines(text) = {}
    /\ Len(result) = 1
    /\ result[1].section_type = "api"

\* C8: the text of a filler paragraph, a blank line and a paragraph that
\* repeats "API endpoint REST service schema" goes the fallback path and
\* yields exactly two sections, the second typed api or daten with
\* confidence above 0.6.
C8_ApiParagraphStartsSecondSection ==
    (Done /\ text = ApiDoc) =>
        /\ FallbackPath
        /\ Len(result) = 2
        /\ result[2].section_type \in {"api", "daten"}
        /\ FracLess(Frac(6, 10), result[2].confidence)

\* C9: in the header path a section whose title classifies with confidence
\* above 0.5 gets the title's category with confidence 0.7 * title + 0.3 *
\* content, any other section gets the content's category and confidence;
\* the section "Requirements" of RequirementsDoc is typed anforderungen
\* with confidence above 0.5.
C9_TitleWeightedClassification ==
    (Done /\ HeaderPath) =>
        /\ \A n \in 1..Len(result) :
              LET t == ClassifyText(result[n].title)
                  c == ClassifyText(result[n].content)
                  got == result[n].confidence
              IN  IF 2 * t.confidence.num > t.confidence.den
                  THEN /\ result[n].section_type = t.type
                       /\ 10 * got.num * t.confidence.den * c.confidence.den =
                             got.den * (7 * t.confidence.num * c.confidence.den
                                        + 3 * c.confidence.num * t.confidence.den)
                  ELSE /\ result[n].section_type = c.type
                       /\ got = c.confidence
        /\ text = RequirementsDoc =>
              /\ result[1].title = "Requirements"
              /\ result[1].section_type = "anforderungen"
              /\ 2 * result[1].confidence.num > result[1].confidence.den

\* a title that wins over a content of another category
C9_Witness ==
    /\ Done /\ HeaderPath
    /\ \E n \in 1..Len(result) :
          /\ StartsSection(result[n].title)
          /\ ClassifyText(result[n].content).type
                \notin {"general", ClassifyText(result[n].title).type}
          /\ result[n].section_type = ClassifyText(result[n].title).type

\* the n-th smallest element of a set of numbers
RECURSIVE NthSmallest(_, _)
NthSmallest(S, n) ==
    IF n = 1 THEN SetMin(S) ELSE NthSmallest(S \ {SetMin(S)}, n - 1)

\* C10: if some line is detected as a header, the fallback is not run and
\* the result has exactly one section per header line, in their order, each
\* titled with the header's label; if none is, the fallback alone produces
\* the result.
C10_OneSectionPerHeader ==
    Done =>
        LET ls == Split(text, "\n")
            H == HeaderLines(text)
        IN  IF H # {}
            THEN /\ HeaderPath
                 /\ Len(result) = Cardinality(H)
                 /\ \A n \in 1..Len(result) :
                       LET k == NthSmallest(H, n)
                       IN  /\ result[n].start_position = k
                           /\ result[n].title = DetectHeader(ls[k + 1], ls, k)[1]
            ELSE /\ FallbackPath
                 /\ \A n \in 1..Len(result) :
                       /\ result[n].title = "Section " \o ToString(n)
                       /\ result[n].start_position = 0
                       /\ result[n].end_position = 0

\* two header lines with a content line between them have given two sections
C10_Witness ==
    /\ Done /\ HeaderPath
    /\ HeaderLines(text) = {0, 2}
    /\ Len(result) = 2
    /\ result[1].content # ""
    /\ result[2].start_position = 2

\* a line made of underline characters only
OnlyUnderline(line) ==
    Len(line) > 0 /\ \A k \in 1..Len(line) : Char(line, k) \in UnderlineChars

\* the line of index k (from 0) is not blank, matches none of the markdown,
\* numbered and upper-case rules, and has an underline as its next line
UnderlinedAt(ls, k) ==
    /\ k + 2 <= Len(ls)
    /\ Strip(ls[k + 1]) # ""
    /\ MatchMarkdown(Strip(ls[k + 1])) = <<>>
    /\ MatchNumbered(Strip(ls[k + 1])) = <<>>
    /\ MatchAllCaps(Strip(ls[k + 1]), FALSE) = <<>>
    /\ OnlyUnderline(ls[k + 2])

\* C11: a non-blank line that matches none of the markdown, numbered and
\* all-caps rules and whose next line holds only "=", "-" or "_" starts a
\* section titled with that line, trimmed; "Overview" over "========" gives
\* a section titled "Overview".
C11_UnderlinedLineStartsSection ==
    Done =>
        LET ls == Split(text, "\n")
        IN  /\ \A k \in 0..(Len(ls) - 1) :
                  UnderlinedAt(ls, k) =>
                      /\ HeaderPath
                      /\ \E n \in 1..Len(result) :
                            /\ result[n].start_position = k
                            /\ result[n].title = Strip(ls[k + 1])
            /\ text = UnderlinedDoc =>
                  Len(result) >= 1 /\ result[1].title = "Overview"

\* a punctuated line over an underline has started a section of its own
C11_Witness ==
    /\ Done
    /\ text = "# api\nok, fine.\n==="
    /\ Len(result) = 2
    /\ result[2].title = "ok, fine."
    /\ result[2].start_position = 1
    /\ result[2].content = "==="

\* the line of index k (from 0) has an underline as its next line
UnderlineFollows(ls, k) ==
    k + 2 <= Len(ls) /\ OnlyUnderline(Strip(ls[k + 2]))

\* the returned sections hold one that starts at the line of index k
SectionStartsAt(k) ==
    HeaderPath /\ \E n \in 1..Len(result) : result[n].start_position = k

\* C12: "INTRODUCTION" followed by body text is a header; a line of fewer
\* than 6 characters, such as "Hi", that is neither a markdown nor a numbered
\* header and has no underline beneath it is never a header.
C12_ShortLineIsNoHeader ==
    Done =>
        LET ls == Split(text, "\n")
        IN  /\ \A k \in 0..(Len(ls) - 1) :
                  LET stripped == Strip(ls[k + 1])
                  IN  (/\ Len(stripped) < 6
                       /\ MatchMarkdown(stripped) = <<>>
                       /\ MatchNumbered(stripped) = <<>>
                       /\ ~UnderlineFollows(ls, k)) => ~SectionStartsAt(k)
            /\ text = "INTRODUCTION\nbody text." =>
                  /\ HeaderPath
                  /\ Len(result) = 1
                  /\ result[1].title = "INTRODUCTION"
                  /\ result[1].content = "body text."

\* "Hi" under a markdown header has stayed in that header's content
C12_Witness ==
    /\ Done
    /\ text = ShortLineDoc
    /\ Len(result) = 1
    /\ result[1].title = "api"
    /\ result[1].content = "Hi\nok, fine."

\* a line of letters and spaces that is not entirely upper-case
MixedCaseLine(s) ==
    /\ Len(s) >= 1
    /\ \A k \in 1..Len(s) : Char(s, k) \in UpperLetters \cup LowerLetters \cup {" "}
    /\ \E k \in 1..Len(s) : Char(s, k) \in LowerLetters

\* C17: the all-caps rule marks a line as a header only if the line is
\* entirely upper-case letters and spaces and has at least 6 characters: a
\* lower-case or mixed-case line of letters and spaces that matches no other
\* rule and has no underline beneath it is not detected as a header.
C17_MixedCaseLineIsNoHeader ==
    Done =>
        LET ls == Split(text, "\n")
        IN  \A k \in 0..(Len(ls) - 1) :
               LET stripped == Strip(ls[k + 1])
               IN  (/\ MixedCaseLine(stripped)
                    /\ MatchMarkdown(stripped) = <<>>
                    /\ MatchNumbered(stripped) = <<>>
                    /\ ~UnderlineFollows(ls, k)) => ~SectionStartsAt(k)

\* C18: a blank or whitespace-only line is never treated as a header and
\* never starts a section, also when the line after it holds only "=", "-"
\* or "_".
C18_BlankLineIsNoHeader ==
    Done =>
        LET ls == Split(text, "\n")
        IN  \A k \in 0..(Len(ls) - 1) :
               Strip(ls[k + 1]) = "" =>
                   /\ ~SectionStartsAt(k)
                   /\ \A n \in 1..Len(result) : HeaderPath => result[n].title # ""

\* a blank line over an underline has stayed in the content of the header
\* before it
C18_Witness ==
    /\ Done
    /\ text = "# api\n\n==="
    /\ UnderlineFollows(Split(text, "\n"), 1)
    /\ Len(result) = 1
    /\ result[1].content = "==="

\* the title of the returned section that starts at the line of index k
TitleAt(k) ==
    LET n == CHOOSE n \in 1..Len(result) : result[n].start_position = k
    IN  result[n].title

\* C19: the label of a line that satisfies several header rules is that of
\* the first rule in the order markdown, numbered, all-caps, underline: a
\* markdown header is labelled with the text after its "#" characters also
\* when that text is numbered or upper-case or an underline follows, and a
\* numbered line is labelled with the whole line.
C19_FirstRuleGivesLabel ==
    Done =>
        LET ls == Split(text, "\n")
        IN  \A k \in 0..(Len(ls) - 1) :
               LET stripped == Strip(ls[k + 1])
               IN  /\ MatchMarkdown(stripped) # <<>> =>
                         /\ SectionStartsAt(k)
                         /\ TitleAt(k) = Strip(MatchMarkdown(stripped)[1])
                   /\ (MatchMarkdown(stripped) = <<>> /\ MatchNumbered(stripped) # <<>>) =>
                         /\ SectionStartsAt(k)
                         /\ TitleAt(k) = stripped

\* a markdown header whose text is numbered and whose next line is an
\* underline has been labelled with the text after the "#"
C19_Witness ==
    /\ Done
    /\ text = MarkdownNumberedDoc
    /\ MatchNumbered("1. goals") # <<>>
    /\ UnderlineFollows(Split(text, "\n"), 0)
    /\ Len(result) = 1
    /\ result[1].title = "1. goals"

\* the paragraphs of t that are not empty once stripped, stripped, in order
RECURSIVE StrippedNonEmpty(_)
StrippedNonEmpty(ps) ==
    IF ps = <<>> THEN <<>>
    ELSE IF Strip(Head(ps)) = "" THEN StrippedNonEmpty(Tail(ps))
    ELSE <<Strip(Head(ps))>> \o StrippedNonEmpty(Tail(ps))

\* the paragraphs of the first n returned sections, in order
RECURSIVE ParagraphsOfSections(_)
ParagraphsOfSections(n) ==
    IF n = 0 THEN <<>>
    ELSE ParagraphsOfSections(n - 1) \o Split(result[n].content, "\n\n")

\* C20: in the paragraph fallback a new section starts at a non-empty
\* paragraph exactly when that paragraph classifies to a non-general type
\* with confidence above 0.6 (the first paragraph opens the first section
\* either way); every other non-empty paragraph is appended to the current
\* section, so the sections hold every non-empty paragraph once, in
\* document order.
C20_ParagraphsGroupedInOrder ==
    (Done /\ FallbackPath) =>
        /\ ParagraphsOfSections(Len(result)) = StrippedNonEmpty(Split(text, "\n\n"))
        /\ \A n \in 1..Len(result) :
              LET ps == Split(result[n].content, "\n\n")
              IN  /\ n >= 2 => StartsSection(ps[1])
                  /\ \A j \in 2..Len(ps) : ~StartsSection(ps[j])

\* four paragraphs, the second and the fourth of a category: three sections,
\* the third paragraph appended to the second section
C20_Witness ==
    /\ Done /\ FallbackPath
    /\ text = ParagraphsDoc
    /\ Len(result) = 3
    /\ result[1].content = "ok, fine."
    /\ result[2].content = "see data 1.\n\nok, fine."
    /\ result[3].content = "see api 2."

\* ------------------------------------------------------------------------
\* Properties of analyze_document

\* the analysis has ended, with a result or with an exception
AnalysisEnded == apc \in {"returned", "raised"}

\* C15: analyze_document always returns a FeatureAnalysisResult and never
\* raises because of the AI layer; a part whose AI call raised or whose
\* answer is no JSON object is empty in the result (project_metadata is the
\* empty dict or the object of the answer, never another value).
C15_AnalysisAlwaysReturns ==
    /\ apc # "raised"
    /\ apc = "returned" => analysis.project_metadata.type = "dict"

\* the active provider is openai or azure and its API key is missing
ActiveKeyMissing ==
    \/ config.default = "openai" /\ ~config.openai_api_key
    \/ config.default = "azure" /\ ~config.azure_api_key

\* C16: with openai or azure as the active provider and its API key missing,
\* the analysis ends with an exception that reaches the caller, not with a
\* normal result.
C16_MissingKeyReachesCaller ==
    (AnalysisEnded /\ ActiveKeyMissing) => apc = "raised"

\* ------------------------------------------------------------------------
\* Properties of get_section_summary

\* the sum of the content lengths of the first n returned sections
RECURSIVE ContentLength(_)
ContentLength(n) ==
    IF n = 0 THEN 0 ELSE ContentLength(n - 1) + Len(result[n].content)

\* the sum of the confidences of the first n returned sections
RECURSIVE ConfidenceSum(_)
ConfidenceSum(n) ==
    IF n = 0 THEN Zero ELSE FracAdd(ConfidenceSum(n - 1), result[n].confidence)

\* the sum of the values of a dict of counts over the keys in S
RECURSIVE CountSum(_, _)
CountSum(counts, S) ==
    IF S = {} THEN 0
    ELSE LET t == CHOOSE t \in S : TRUE
         IN  counts[t] + CountSum(counts, S \ {t})

\* C13: get_section_summary returns total_sections equal to the length of
\* the list, one count per section_type present, the counts summing to
\* total_sections, total_content_length equal to the sum of the content
\* lengths and avg_confidence equal to the mean confidence, 0.0 for the
\* empty list; the sections it is given are not modified.
C13_SummaryAggregates ==
    pc = "summarized" =>
        LET n == Len(result)
            types == {result[k].section_type : k \in 1..n}
        IN  /\ summary.total_sections = n
            /\ DOMAIN summary.section_types = types
            /\ \A t \in types :
                  summary.section_types[t] =
                      Cardinality({k \in 1..n : result[k].section_type = t})
            /\ CountSum(summary.section_types, types) = n
            /\ summary.total_content_length = ContentLength(n)
            /\ IF n = 0 THEN summary.avg_confidence = Zero
               ELSE summary.avg_confidence.num * n * ConfidenceSum(n).den
                        = ConfidenceSum(n).num * summary.avg_confidence.den
            /\ result = sections

\* the summary of two sections of one type
C13_Witness ==
    /\ pc = "summarized"
    /\ summary.total_sections = 2
    /\ DOMAIN summary.section_types = {"api"}
    /\ summary.section_types["api"] = 2
    /\ summary.total_content_length > 0

\* ------------------------------------------------------------------------
\* Properties of concurrent calls

\* C14: segment_document calls interleaved in any way on one shared
\* DocumentSegmenter each return what they return when run alone; no call
\* writes section_patterns, heading_patterns or other state shared between
\* the calls.
C14_InterleavedCallsAsAlone ==
    /\ section_patterns = SectionPatternTable
    /\ heading_patterns = HeadingPatternTable
    /\ (Done /\ remembered # None /\ text = remembered.text) =>
           result = remembered.result

\* a call has returned the result of the call run alone while another call,
\* on another text, is under way with lines already scanned
C14_Witness ==
    /\ Done
    /\ remembered # None
    /\ text = remembered.text
    /\ result = remembered.result
    /\ Len(result) >= 2
    /\ suspended # None
    /\ suspended.pc \in {"scan", "classify", "paragraphs"}
    /\ suspended.i >= 1
    /\ suspended.text # text

\* ------------------------------------------------------------------------
\* Properties of the paragraph fallback and of the order of the sections

\* C21: every section of the paragraph fallback has start_position 0 and
\* end_position 0, and the i-th section returned, counting from 1, is titled
\* "Section i": the titles are consecutive and differ from one another.
C21_FallbackTitlesAndPositions ==
    (Done /\ FallbackPath) =>
        /\ \A n \in 1..Len(result) :
              /\ result[n].start_position = 0
              /\ result[n].end_position = 0
              /\ result[n].title = "Section " \o ToString(n)
        /\ \A m, n \in 1..Len(result) : m # n => result[m].title # result[n].title

\* three fallback sections, titled "Section 1" to "Section 3"
C21_Witness ==
    /\ Done /\ FallbackPath
    /\ Len(result) = 3
    /\ result[1].title = "Section 1"
    /\ result[3].title = "Section 3"
    /\ result[3].end_position = 0

\* the number of paragraphs held by the first n returned sections
RECURSIVE ParagraphCount(_)
ParagraphCount(n) ==
    IF n = 0 THEN 0
    ELSE ParagraphCount(n - 1) + Len(Split(result[n].content, "\n\n"))

\* the line index at which the span of the n-th returned section ends: the
\* header line of the next section, or the end of the input
SpanEnd(n) ==
    IF n < Len(result) THEN result[n + 1].start_position ELSE Len(Split(text, "\n"))

\* C22: the sections are returned in document order. On the header path
\* start_position is strictly increasing and the content of a section is the
\* one span of lines between its header and the next header; on the fallback
\* path the paragraphs of a section are one run of consecutive non-empty
\* paragraphs of the input, the run of section n+1 starting right after the
\* run of section n.
C22_SectionsInDocumentOrder ==
    Done =>
        /\ HeaderPath =>
              \A n \in 1..Len(result) :
                 /\ n < Len(result) =>
                       result[n].start_position < result[n + 1].start_position
                 /\ result[n].content =
                       Strip(Join(SubSeq(Split(text, "\n"),
                                         result[n].start_position + 2, SpanEnd(n)), "\n"))
        /\ FallbackPath =>
              \A n \in 1..Len(result) :
                 Split(result[n].content, "\n\n") =
                    SubSeq(StrippedNonEmpty(Split(text, "\n\n")),
                           ParagraphCount(n - 1) + 1, ParagraphCount(n))

\* two headers with a body line between them
C22_Witness ==
    /\ Done /\ HeaderPath
    /\ Len(result) = 2
    /\ result[1].start_position = 0
    /\ result[2].start_position = 2
    /\ result[1].content # ""

\* C27: on the fallback path the type and the confidence of a section are
\* those of the paragraph that opened it, whatever paragraphs were appended
\* to it; the first section alone may be the general one (confidence 0.3),
\* opened by no paragraph, and every later section has a category and a
\* confidence above 0.6.
C27_SectionKeepsOpeningClassification ==
    (Done /\ FallbackPath) =>
        \A n \in 1..Len(result) :
            LET opening == Split(result[n].content, "\n\n")[1]
            IN  /\ IF n = 1 /\ ~StartsSection(opening)
                   THEN /\ result[n].section_type = "general"
                        /\ result[n].confidence = Frac(3, 10)
                   ELSE /\ result[n].section_type = ClassifyText(opening).type
                        /\ result[n].confidence = ClassifyText(opening).confidence
                /\ n >= 2 =>
                      /\ result[n].section_type # "general"
                      /\ FracLess(SixTenths, result[n].confidence)

\* a section opened by a daten paragraph keeps daten and 1.0 after a
\* paragraph scored 10/17 for api was appended to it
C27_Witness ==
    /\ Done /\ FallbackPath
    /\ text = AppendedDoc
    /\ Len(result) = 1
    /\ Len(Split(result[1].content, "\n\n")) = 2
    /\ ClassifyText(Split(result[1].content, "\n\n")[2]).type = "api"
    /\ result[1].section_type = "daten"
    /\ result[1].confidence = One

\* C26: on the header path the positions are contiguous: start_position is
\* the index of a header line, 0 <= start_position < end_position, the
\* end_position of a section is the start_position of the next one, and the
\* end_position of the last section is the number of lines of the input.
C26_HeaderPositionsContiguous ==
    (Done /\ HeaderPath) =>
        \A n \in 1..Len(result) :
            /\ result[n].start_position \in HeaderLines(text)
            /\ 0 <= result[n].start_position
            /\ result[n].start_position < result[n].end_position
            /\ result[n].end_position = SpanEnd(n)

\* three header lines in a row: three sections of one line each
C26_Witness ==
    /\ Done /\ HeaderPath
    /\ Len(Split(text, "\n")) = 3
    /\ Len(result) = 3
    /\ result[1].end_position = 1
    /\ result[2].end_position = 2
    /\ result[3].start_position = 2
    /\ result[3].end_position = 3

\* ------------------------------------------------------------------------
\* Properties of the scores of _classify_text

\* the place of a category in the pattern table
CategoryIndex(c) == CHOOSE k \in 1..Len(CategoryOrder) : CategoryOrder[k] = c

\* the capped, normalized score of category c on the text t
CappedScore(c, t) == NormalizedScore(RawScore(c, t), WordCount(t))

\* c matched t, no category has a higher capped score on t, and every
\* category declared before c has a lower one
HighestFirstDeclared(c, t) ==
    /\ RawScore(c, t) > 0
    /\ \A k \in 1..Len(CategoryOrder) :
          LET o == CategoryOrder[k]
          IN  RawScore(o, t) > 0 =>
                 /\ FracLeq(CappedScore(o, t), CappedScore(c, t))
                 /\ k < CategoryIndex(c) => FracLess(CappedScore(o, t), CappedScore(c, t))

\* the text whose classification a returned section carries: the paragraph
\* that opened it on the fallback path, its content on the header path
ClassifiedText(n) ==
    IF FallbackPath THEN Split(result[n].content, "\n\n")[1] ELSE result[n].content

\* the returned section carries the classification of one text
CarriesClassification(n) ==
    /\ result[n].section_type # "general"
    /\ HeaderPath => FracLeq(ClassifyText(result[n].title).confidence, Half)

\* C23: the classifier returns the category of the highest capped score,
\* and among categories of equal score the one declared first in the table
\* (ziele, anforderungen, features, technisch, user_stories, api, daten),
\* with that score as the confidence.
C23_HighestScoreFirstDeclaredWins ==
    Done => \A n \in 1..Len(result) :
        CarriesClassification(n) =>
            /\ HighestFirstDeclared(result[n].section_type, ClassifiedText(n))
            /\ result[n].confidence =
                  CappedScore(result[n].section_type, ClassifiedText(n))

\* api and daten both score 10/12: api, declared first, is returned
C23_Witness ==
    /\ Done /\ FallbackPath
    /\ text = UncappedTieDoc
    /\ CappedScore("api", text) = Frac(5, 6)
    /\ CappedScore("daten", text) = Frac(5, 6)
    /\ result[1].section_type = "api"
    /\ result[1].confidence = Frac(5, 6)

\* C24: the confidence of a returned category of raw score raw in a text of
\* word_count words is min(10 * raw / word_count, 1): raw is positive, the
\* confidence is 1 exactly when 10 * raw >= word_count, and is otherwise
\* 10 * raw / word_count, strictly between 0 and 1.
C24_CappedScoreValue ==
    Done => \A n \in 1..Len(result) :
        CarriesClassification(n) =>
            LET raw == RawScore(result[n].section_type, ClassifiedText(n))
                word_count == WordCount(ClassifiedText(n))
                got == result[n].confidence
            IN  /\ raw > 0
                /\ got = One <=> 10 * raw >= word_count
                /\ 10 * raw < word_count =>
                      /\ got.num * word_count = 10 * raw * got.den
                      /\ FracLess(Zero, got)
                      /\ FracLess(got, One)

\* one text scored below the cap (20/24) and one at it (10 * 1 >= 4)
C24_Witness ==
    /\ Done /\ FallbackPath
    /\ text = LaterWinsDoc
    /\ result[1].section_type = "daten"
    /\ RawScore("daten", text) = 2
    /\ WordCount(text) = 24
    /\ result[1].confidence = Frac(5, 6)
    /\ ClassifyText(CappedTieDoc).confidence = One

\* ------------------------------------------------------------------------
\* Properties of the AI calls of one analysis

\* one enhancement call per feature of the list, in list order
RECURSIVE EnhancementCalls(_)
EnhancementCalls(features) ==
    IF features = <<>> THEN <<>>
    ELSE <<AiCall("technical_analysis", Head(features))>>
         \o EnhancementCalls(Tail(features))

\* the calls of a whole run, given the features extracted so far
ExpectedCalls ==
    <<AiCall("feature_extraction", None)>>
    \o (IF config.enable_implicit_features
        THEN <<AiCall("implicit_analysis", None)>> ELSE <<>>)
    \o EnhancementCalls(explicit_features)
    \o EnhancementCalls(implicit_features)
    \o <<AiCall("project_metadata", None)>>

IsPrefix(a, b) == Len(a) <= Len(b) /\ a = SubSeq(b, 1, Len(a))

\* C25: within one analyze_document run the AI calls are strictly
\* sequential: at most one call is unanswered at any time, and it is the
\* last one made; the calls made so far are the beginning of the sequence
\* explicit extraction, implicit extraction (only when
\* enable_implicit_features), one enhancement per explicit feature in list
\* order, one per implicit feature in list order, project metadata; a run
\* that returns has made exactly that sequence.
C25_AiCallsSequentialInOrder ==
    /\ Len(in_flight) <= 1
    /\ in_flight # <<>> => in_flight[1] = ai_calls[Len(ai_calls)]
    /\ IsPrefix(ai_calls, ExpectedCalls)
    /\ apc = "returned" => (ai_calls = ExpectedCalls /\ in_flight = <<>>)

\* a returned run with two explicit features and one implicit feature: six calls
C25_Witness ==
    /\ apc = "returned"
    /\ config.enable_implicit_features
    /\ Len(explicit_features) = 2
    /\ Len(implicit_features) = 1
    /\ Len(ai_calls) = 6
    /\ ai_calls[3] = AiCall("technical_analysis", explicit_features[1])
    /\ ai_calls[4] = AiCall("technical_analysis", explicit_features[2])
    /\ ai_calls[5] = AiCall("technical_analysis", implicit_features[1])
    /\ explicit_features[1] # explicit_features[2]

\* the enhanced list holds, place by place, the features of the first
\* Len(enhanced) places of the extracted list, with the same feature_name,
\* kategorie and confidence
KeepsIdentity(extracted, enhanced) ==
    /\ Len(enhanced) <= Len(extracted)
    /\ \A n \in 1..Len(enhanced) :
          /\ enhanced[n].feature_name = extracted[n].feature_name
          /\ enhanced[n].kategorie = extracted[n].kategorie
          /\ enhanced[n].confidence = extracted[n].confidence

\* every feature of the list has a confidence of at least min_confidence
AllConfident(features) ==
    \A n \in 1..Len(features) :
        /\ features[n].confidence.type = "number"
        /\ FracLeq(config.min_confidence, features[n].confidence.value)

\* C28: every feature of features and of implicit_features of a returned
\* analysis has confidence >= min_confidence, and the enhancement keeps the
\* number and the order of the features and the feature_name, kategorie and
\* confidence of each, whether its AI call succeeds or fails.
C28_ConfidentFeaturesKeptByEnhancement ==
    /\ KeepsIdentity(explicit_features, enhanced_features)
    /\ KeepsIdentity(implicit_features, enhanced_implicit)
    /\ apc = "returned" =>
          /\ Len(analysis.features) = Len(explicit_features)
          /\ Len(analysis.implicit_features) = Len(implicit_features)
          /\ KeepsIdentity(explicit_features, analysis.features)
          /\ KeepsIdentity(implicit_features, analysis.implicit_features)
          /\ AllConfident(analysis.features)
          /\ AllConfident(analysis.implicit_features)

\* two features extracted, the first with confidence exactly min_confidence;
\* its enhancement answered with other values for the fields that are kept,
\* the enhancement of the second failed; one implicit feature
C28_Witness ==
    /\ apc = "returned"
    /\ Len(analysis.features) = 2
    /\ Len(analysis.implicit_features) = 1
    /\ analysis.features[1].feature_name = JStr("edge")
    /\ analysis.features[1].confidence = JNum(6, 10)
    /\ analysis.features[1].beschreibung = JStr("new")
    /\ analysis.features[2] = explicit_features[2]
    /\ analysis.features[2].feature_name = JStr("login")

\* ------------------------------------------------------------------------
\* AIProviderManager.generate called with a provider argument

\* the calls made on one manager
MaxGenerateCalls == 2

\* the argument provider="name"
Named(name) == [name |-> name]

\* the arguments of the model: none, each provider the manager can register,
\* and a name it never registers
ProviderArguments == {None} \cup {Named(n) : n \in ProviderNames \cup {"mistral"}}

\* get_provider: the name looked up in self.providers
ProviderName(provider_name) ==
    IF provider_name = None THEN config.default ELSE provider_name.name

\* what a provider's generate does: it answers, or it raises what its HTTP
\* call or client raised
ProviderOutcomes(name) ==
    {Raises("Exception")}
    \cup {[content |-> t, provider |-> name] : t \in {ProseText, MetadataText}}

\* get_provider returning the default provider for a name that is not
\* registered
GenerateFallingBackToDefault ==
    /\ gpc = "idle"
    /\ generate_calls < MaxGenerateCalls
    /\ \E argument \in ProviderArguments :
          /\ provider' = argument
          /\ IF ProviderName(argument) \notin providers
                /\ config.default \notin providers
             THEN /\ gpc' = "raised"
                  /\ response' = Raises("ValueError")
                  /\ dispatched' = <<>>
             ELSE /\ gpc' = "awaiting"
                  /\ response' = None
                  /\ dispatched' =
                        <<IF ProviderName(argument) \in providers
                          THEN ProviderName(argument) ELSE config.default>>
    /\ generate_calls' = generate_calls + 1
    /\ UNCHANGED <<section_patterns, heading_patterns, pc, text, lines, i,
                   current_section, header_sections, paragraphs, sections, calls,
                   result, remembered, summary, suspended, analyzer, processor>>

\* generate(messages, provider): get_provider raises ValueError for a name
\* that is not registered, or the provider's generate is called and awaited
Generate ==
    /\ gpc = "idle"
    /\ generate_calls < MaxGenerateCalls
    /\ \E argument \in ProviderArguments :
          /\ provider' = argument
          /\ IF ProviderName(argument) \notin providers
             THEN /\ gpc' = "raised"
                  /\ response' = Raises("ValueError")
                  /\ dispatched' = <<>>
             ELSE /\ gpc' = "awaiting"
                  /\ response' = None
                  /\ dispatched' = <<ProviderName(argument)>>
    /\ generate_calls' = generate_calls + 1
    /\ UNCHANGED <<section_patterns, heading_patterns, pc, text, lines, i,
                   current_section, header_sections, paragraphs, sections, calls,
                   result, remembered, summary, suspended, analyzer, processor>>

\* the awaited provider answers or raises: generate returns the answer or
\* lets the exception through
ProviderAnswers ==
    /\ gpc = "awaiting"
    /\ \E outcome \in ProviderOutcomes(dispatched[1]) :
          /\ response' = outcome
          /\ gpc' = IF outcome = Raises("Exception") THEN "raised" ELSE "returned"
    /\ UNCHANGED <<section_patterns, heading_patterns, pc, text, lines, i,
                   current_section, header_sections, paragraphs, sections, calls,
                   result, remembered, summary, suspended, analyzer,
                   provider, dispatched, generate_calls, processor>>

\* the caller has its answer or its exception; the manager can be called again
GenerateEnded ==
    /\ gpc \in {"returned", "raised"}
    /\ gpc' = "idle"
    /\ provider' = None
    /\ dispatched' = <<>>
    /\ response' = None
    /\ UNCHANGED <<section_patterns, heading_patterns, pc, text, lines, i,
                   current_section, header_sections, paragraphs, sections, calls,
                   result, remembered, summary, suspended, analyzer,
                   generate_calls, processor>>

NextGenerate ==
    \/ Generate
    \/ ProviderAnswers
    \/ GenerateEnded

\* a manager of any configuration
InitGenerate ==
    SegmenterIdle /\ ManagerIdle /\ ProcessorIdle /\ \E c \in Configs : AnalyzerIdle(c)

SpecGenerate == InitGenerate /\ [][NextGenerate]_vars

\* C29: generate dispatches to exactly one provider, the named one or else
\* the default one: a name that is not registered raises ValueError and no
\* provider is called; the failure of the chosen provider reaches the caller
\* and no other provider is tried; the answer returned is the chosen
\* provider's; the registered providers are the same after every call.
C29_GenerateDispatchesToOneProvider ==
    /\ providers = InitializeProviders(config)
    /\ Len(dispatched) <= 1
    /\ gpc \in {"awaiting", "returned", "raised"} =>
          IF ProviderName(provider) \in providers
          THEN /\ dispatched = <<ProviderName(provider)>>
               /\ gpc = "raised" => response = Raises("Exception")
               /\ gpc = "returned" => response.provider = ProviderName(provider)
          ELSE /\ gpc = "raised"
               /\ response = Raises("ValueError")
               /\ dispatched = <<>>

\* the second call on a manager: the named provider, not the default one,
\* was called and failed, and the failure is what the caller got
C29_Witness ==
    /\ generate_calls = 2
    /\ gpc = "raised"
    /\ provider = Named("openai")
    /\ config.default = "ollama"
    /\ providers = {"ollama", "openai"}
    /\ dispatched = <<"openai">>
    /\ response = Raises("Exception")

\* ------------------------------------------------------------------------
\* DocumentProcessor.process_documents: extraction, segmentation, feature
\* analysis and code generation

\* the PDF paths of one call
MaxPdfs == 2

\* what extract_from_multiple records for one path: a failure, or the text
\* of the pages and the file name
Failed == [success |-> FALSE, filename |-> "a.pdf", text |-> ""]

Extracted(t) == [success |-> TRUE, filename |-> "a.pdf", text |-> t]

\* a PDF whose page holds a header line, and one whose page holds none
PdfResults ==
    {Failed, Extracted("--- Page 1 ---\n# api\nplain.\n"),
     Extracted("--- Page 1 ---\nsee api 2.\n")}

RECURSIVE ListsOf(_, _)
ListsOf(S, n) ==
    IF n = 0 THEN {<<>>}
    ELSE ListsOf(S, n - 1)
         \cup {Append(l, x) : l \in {m \in ListsOf(S, n - 1) : Len(m) = n - 1}, x \in S}

\* "r for r in extraction_results if r['success']"
RECURSIVE Successful(_)
Successful(rs) ==
    IF rs = <<>> THEN <<>>
    ELSE (IF Head(rs).success THEN <<Head(rs)>> ELSE <<>>) \o Successful(Tail(rs))

RECURSIVE CombinedParts(_)
CombinedParts(rs) ==
    IF rs = <<>> THEN <<>>
    ELSE <<"=== DOKUMENT: " \o Head(rs).filename \o " ===\n\n" \o Head(rs).text \o "\n\n">>
         \o CombinedParts(Tail(rs))

\* _combine_extracted_texts(extraction_results)
CombineExtractedTexts(rs) == Join(CombinedParts(rs), "\n")

OutputFormats == {"features", "tasks", "code", "all", "html"}

\* the formats of 'if output_format in ["code", "tasks", "all"]'
GeneratingFormats == {"code", "tasks", "all"}

\* Step 1 without the check that an extraction succeeded
ProcessDocumentsUnchecked ==
    /\ ppc = "idle"
    /\ \E rs \in ListsOf(PdfResults, MaxPdfs), format \in OutputFormats :
          /\ extraction_results' = rs
          /\ output_format' = format
          /\ ppc' = "extracted"
          /\ results' = results
    /\ UNCHANGED <<segmenter, analyzer, manager, generations>>

\* process_documents(pdf_paths, project_name, output_format), Step 1:
\* extract_from_multiple, and ValueError if no extraction succeeded
ProcessDocuments ==
    /\ ppc = "idle"
    /\ \E rs \in ListsOf(PdfResults, MaxPdfs), format \in OutputFormats :
          /\ extraction_results' = rs
          /\ output_format' = format
          /\ IF Successful(rs) = <<>>
             THEN /\ ppc' = "raised"
                  /\ results' = Raises("ValueError")
             ELSE /\ ppc' = "extracted"
                  /\ results' = results
    /\ UNCHANGED <<segmenter, analyzer, manager, generations>>

\* Step 2: segment_document(combined_text) is called
SegmentCombined ==
    /\ ppc = "extracted"
    /\ pc = "idle"
    /\ Enter(CombineExtractedTexts(Successful(extraction_results)))

\* Step 3: analyze_document(combined_text, document_sections) is called
AnalyzeCombined ==
    /\ ppc = "extracted"
    /\ pc = "done"
    /\ AnalyzeDocument

\* the keys of results before Step 4
ResultKeys == {"extraction_results", "document_sections", "feature_analysis"}

\* what generate_project does: it returns, or an exception leaves it
GenerateProjectOutcomes == {"returned", "raised"}

\* the results dict, Step 4 (generate_project, if the format asks for it)
\* and the return
FinishProcess ==
    /\ ppc = "extracted"
    /\ apc = "returned"
    /\ IF output_format \in GeneratingFormats
       THEN /\ generations' = generations + 1
            /\ \E outcome \in GenerateProjectOutcomes :
                  IF outcome = "returned"
                  THEN /\ ppc' = "returned"
                       /\ results' = [keys |-> ResultKeys \cup {"code_generation"}]
                  ELSE /\ ppc' = "raised"
                       /\ results' = Raises("Exception")
       ELSE /\ generations' = generations
            /\ ppc' = "returned"
            /\ results' = [keys |-> ResultKeys]
    /\ UNCHANGED <<segmenter, analyzer, manager, extraction_results, output_format>>

\* an exception of segment_document or analyze_document leaves process_documents
ProcessRaises ==
    /\ ppc = "extracted"
    /\ "raised" \in {pc, apc}
    /\ ppc' = "raised"
    /\ results' = IF apc = "raised" THEN analysis ELSE Raised
    /\ UNCHANGED <<segmenter, analyzer, manager, extraction_results, output_format,
                   generations>>

NextProcess ==
    \/ ProcessDocuments
    \/ SegmentCombined
    \/ ScanLine
    \/ EndScan
    \/ ClassifyHeaderSection
    \/ ParagraphStep
    \/ EndParagraphs
    \/ Return
    \/ AnalyzeCombined
    \/ AwaitGenerate
    \/ ExtractExplicitFeatures
    \/ ExtractImplicitFeatures
    \/ EnhanceExplicitFeature
    \/ EnhanceImplicitFeature
    \/ AnalyzeProjectMetadata
    \/ ReturnAnalysis
    \/ FinishProcess
    \/ ProcessRaises

SpecProcess == Init /\ [][NextProcess]_vars

\* no extraction of the call succeeded
NoneExtracted == Successful(extraction_results) = <<>>

\* C30: process_documents raises ValueError before any segmentation or AI
\* call when no PDF was extracted successfully; otherwise extraction,
\* segmentation and feature analysis run in that order, on the combined
\* text, and code generation runs, and the code_generation key is added,
\* only when output_format is code, tasks or all, never for features.
C30_PipelineOrder ==
    /\ (ppc # "idle" /\ NoneExtracted) =>
          /\ ppc = "raised"
          /\ results = Raises("ValueError")
          /\ pc = "idle" /\ calls = <<>>
          /\ apc = "idle" /\ ai_calls = <<>>
          /\ generations = 0
    /\ pc # "idle" =>
          /\ ppc # "idle"
          /\ text = CombineExtractedTexts(Successful(extraction_results))
    /\ apc # "idle" => pc = "done"
    /\ ai_calls # <<>> => pc = "done"
    /\ generations > 0 =>
          /\ generations = 1
          /\ apc = "returned"
          /\ output_format \in GeneratingFormats
    /\ ppc = "returned" =>
          /\ apc = "returned"
          /\ ResultKeys \subseteq results.keys
          /\ "code_generation" \in results.keys <=> output_format \in GeneratingFormats
          /\ output_format = "features" => generations = 0

\* a call with one failed and one successful extraction and the format
\* tasks has returned with the code_generation key
C30_Witness ==
    /\ ppc = "returned"
    /\ Len(extraction_results) = 2
    /\ ~extraction_results[1].success
    /\ extraction_results[2].success
    /\ output_format = "tasks"
    /\ Len(result) > 0
    /\ Len(ai_calls) >= 2
    /\ generations = 1
    /\ "code_generation" \in results.keys

====
